---------------------------- MODULE Spec2Model ----------------------------
(***************************************************************************)
(* TimelineExtractor (nlp-service/services/timeline_extractor.py): the     *)
(* time-expression extractor, the event builder and the timeline           *)
(* aggregator, as a state machine whose actions are the public operations  *)
(* of one extractor instance.                                              *)
(*                                                                         *)
(* Conventions.                                                            *)
(*  - A Python str is a sequence of characters; a character is a TLA+      *)
(*    string: an ASCII character stands for itself ("1", "-"), any other   *)
(*    one is written by its code point ("U5E74" is 年), " " is "SP" and    *)
(*    a newline is "NL".  Identifiers the code writes in ASCII ('year',    *)
(*    'dynasty', option names) stay TLA+ strings.                          *)
(*  - A Python dict whose keys vary is a record with a field  keys  (the   *)
(*    keys present) and one field per possible key; the field of an absent *)
(*    key holds a filler (0, "", << >>) that no operator reads without     *)
(*    testing  keys  first.                                                *)
(*  - Offsets are 0-based and spans are half-open, as in Python's re.      *)
(*  - confidence is held in hundredths (0.3 is 30): the sums of the code   *)
(*    are modelled as exact decimal sums.                                  *)
(***************************************************************************)
EXTENDS Integers, Sequences, FiniteSets, TLC

VARIABLES
  self,   \* the extractor instance: time_patterns, dynasty_periods, event_keywords
  op,     \* the operation called on it
  args,   \* the arguments of the call
  ret,    \* whether the call has returned (done), and what it returned (value)
  log     \* the caller's record of one earlier call: its arguments and result

vars == <<self, op, args, ret, log>>

(***************************************************************************)
(* Bounds of the model.                                                    *)
(***************************************************************************)
MaxFrags == 3              \* a text is the concatenation of at most MaxFrags fragments
MaxPos == 2                \* raw matches lie within the offsets 0..MaxPos
MaxRaw == 3                \* a list of raw matches has at most MaxRaw of them
MaxSentenceLength == 101   \* the sentences given to the confidence score
MaxFailing == 2            \* the tokenizer may fail on any of the first MaxFailing sentences
MaxThreads == 2            \* the threads that call analyze on the shared instance
MaxWords == 3              \* the token lists given to the classifier have at most MaxWords tokens
MaxYear == 2100            \* the years given to the grouping are -MaxYear..MaxYear
MaxTimeExpressions == 3    \* the time expressions given to the confidence score

Min(a, b) == IF a <= b THEN a ELSE b

(***************************************************************************)
(* Python built-ins.                                                       *)
(***************************************************************************)
\* x in s, for two str: s holds x as a contiguous substring
IsSubstring(x, s) ==
  \E i \in 0..(Len(s) - Len(x)) : SubSeq(s, i + 1, i + Len(x)) = x

\* lexicographic order of two tuples of int of the same length
TupleLess(a, b) ==
  \E k \in 1..Len(a) :
     /\ a[k] < b[k]
     /\ \A j \in 1..(k - 1) : a[j] = b[j]

\* sorted(items, key=...): stable; keys[i] is the key (a tuple of int) of items[i]
sorted(items, keys) ==
  LET n == Len(items)
      rank(i) == Cardinality({j \in 1..n : \/ TupleLess(keys[j], keys[i])
                                           \/ (keys[j] = keys[i] /\ j < i)}) + 1
  IN  [p \in 1..n |-> items[CHOOSE i \in 1..n : rank(i) = p]]

\* the ascending stable sort read from its end: descending, equal keys in the
\* reverse of their order
sorted_then_reversed(items, keys) ==
  LET ascending == sorted(items, keys)
  IN  [p \in 1..Len(items) |-> ascending[Len(items) + 1 - p]]

\* sorted(items, key=..., reverse=True): descending, equal keys keep their order
sorted_reverse(items, keys) ==
  LET n == Len(items)
      rank(i) == Cardinality({j \in 1..n : \/ TupleLess(keys[i], keys[j])
                                           \/ (keys[j] = keys[i] /\ j < i)}) + 1
  IN  [p \in 1..n |-> items[CHOOSE i \in 1..n : rank(i) = p]]

Digits == <<"0", "1", "2", "3", "4", "5", "6", "7", "8", "9">>

IsDigit(c) == \E d \in 1..10 : Digits[d] = c

DigitValue(c) == (CHOOSE d \in 1..10 : Digits[d] = c) - 1

\* int(s) for a str of decimal digits
RECURSIVE int(_)
int(s) ==
  IF Len(s) = 0 THEN 0
  ELSE 10 * int(SubSeq(s, 1, Len(s) - 1)) + DigitValue(s[Len(s)])

\* str(n) for an int
RECURSIVE str(_)
str(n) ==
  IF n < 0 THEN <<"-">> \o str(-n)
  ELSE IF n < 10 THEN <<Digits[n + 1]>>
  ELSE str(n \div 10) \o <<Digits[(n % 10) + 1]>>

\* s.strip(): leading and trailing whitespace removed
IsSpace(c) == c \in {"SP", "NL"}

RECURSIVE strip(_)
strip(s) ==
  IF Len(s) = 0 THEN s
  ELSE IF IsSpace(s[1]) THEN strip(Tail(s))
  ELSE IF IsSpace(s[Len(s)]) THEN strip(SubSeq(s, 1, Len(s) - 1))
  ELSE s

(***************************************************************************)
(* Regular expressions.  A pattern is a sequence of parts; a part is an    *)
(* alternation of literals (capturing or not, optional or not) or a run of *)
(* lo..hi digits (capturing).  MatchParts is re's backtracking matcher:    *)
(* alternatives are tried in order, quantifiers are greedy.                *)
(***************************************************************************)
Alt(capture, optional, alts) ==
  [kind |-> "alt", capture |-> capture, optional |-> optional, alts |-> alts,
   lo |-> 0, hi |-> 0]

DigitRun(lo, hi) ==
  [kind |-> "digits", capture |-> TRUE, optional |-> FALSE, alts |-> << >>,
   lo |-> lo, hi |-> hi]

Lit(s) == Alt(FALSE, FALSE, <<s>>)

NoMatch == [ok |-> FALSE, end |-> 0, groups |-> << >>]

\* the literal lit stands in text at offset i
LitAt(text, i, lit) ==
  /\ i + Len(lit) <= Len(text)
  /\ SubSeq(text, i + 1, i + Len(lit)) = lit

\* the number of digits that stand in text from offset i on, up to hi
RECURSIVE DigitsAt(_, _, _)
DigitsAt(text, i, hi) ==
  IF hi = 0 \/ i >= Len(text) \/ ~IsDigit(text[i + 1]) THEN 0
  ELSE 1 + DigitsAt(text, i + 1, hi - 1)

RECURSIVE MatchParts(_, _, _, _), TryAlts(_, _, _, _, _), TryDigits(_, _, _, _, _)
MatchParts(parts, k, text, i) ==
  IF k > Len(parts) THEN [ok |-> TRUE, end |-> i, groups |-> << >>]
  ELSE IF parts[k].kind = "alt" THEN TryAlts(parts, k, text, i, 1)
  ELSE TryDigits(parts, k, text, i, DigitsAt(text, i, parts[k].hi))

TryAlts(parts, k, text, i, a) ==
  LET p == parts[k] IN
  IF a > Len(p.alts)
  THEN IF p.optional THEN MatchParts(parts, k + 1, text, i) ELSE NoMatch
  ELSE IF LitAt(text, i, p.alts[a])
       THEN LET r == MatchParts(parts, k + 1, text, i + Len(p.alts[a])) IN
            IF r.ok
            THEN [r EXCEPT !.groups =
                    IF p.capture THEN <<p.alts[a]>> \o @ ELSE @]
            ELSE TryAlts(parts, k, text, i, a + 1)
       ELSE TryAlts(parts, k, text, i, a + 1)

TryDigits(parts, k, text, i, n) ==
  IF n < parts[k].lo THEN NoMatch
  ELSE LET r == MatchParts(parts, k + 1, text, i + n) IN
       IF r.ok
       THEN [r EXCEPT !.groups = <<SubSeq(text, i + 1, i + n)>> \o @]
       ELSE TryDigits(parts, k, text, i, n - 1)

\* regex.finditer(text): the non-overlapping matches, scanning left to right
RECURSIVE ScanFrom(_, _, _)
ScanFrom(parts, text, i) ==
  IF i >= Len(text) THEN << >>
  ELSE LET m == MatchParts(parts, 1, text, i) IN
       IF m.ok
       THEN <<[start |-> i, end |-> m.end, groups |-> m.groups]>>
              \o ScanFrom(parts, text, IF m.end > i THEN m.end ELSE i + 1)
       ELSE ScanFrom(parts, text, i + 1)

finditer(parts, text) == ScanFrom(parts, text, 0)

(***************************************************************************)
(* The static tables built by __init__.                                    *)
(***************************************************************************)
\* The pattern catalog, in declaration order.  regex is the compiled pattern.
_init_time_patterns ==
  <<
   \* (\d{1,4})年
   [type |-> "year", priority |-> 1,
    regex |-> <<DigitRun(1, 4), Lit(<<"U5E74">>)>>],
   \* (春秋|战国|秦|汉|唐|宋|元|明|清)(?:朝)?(?:代)?
   [type |-> "dynasty", priority |-> 2,
    regex |-> <<Alt(TRUE, FALSE,
                    <<<<"U6625", "U79CB">>, <<"U6218", "U56FD">>, <<"U79E6">>,
                      <<"U6C49">>, <<"U5510">>, <<"U5B8B">>, <<"U5143">>,
                      <<"U660E">>, <<"U6E05">>>>),
                Alt(FALSE, TRUE, <<<<"U671D">>>>),
                Alt(FALSE, TRUE, <<<<"U4EE3">>>>)>>],
   \* (康熙|乾隆|雍正|嘉靖|万历|光绪|宣统|贞观|开元|天宝)(?:年间|时期|朝|代)?
   [type |-> "emperor_era", priority |-> 2,
    regex |-> <<Alt(TRUE, FALSE,
                    <<<<"U5EB7", "U7199">>, <<"U4E7E", "U9686">>, <<"U96CD", "U6B63">>,
                      <<"U5609", "U9756">>, <<"U4E07", "U5386">>, <<"U5149", "U7EEA">>,
                      <<"U5BA3", "U7EDF">>, <<"U8D1E", "U89C2">>, <<"U5F00", "U5143">>,
                      <<"U5929", "U5B9D">>>>),
                Alt(FALSE, TRUE,
                    <<<<"U5E74", "U95F4">>, <<"U65F6", "U671F">>, <<"U671D">>,
                      <<"U4EE3">>>>)>>],
   \* (?:第)?(\d{1,2})世纪
   [type |-> "century", priority |-> 2,
    regex |-> <<Alt(FALSE, TRUE, <<<<"U7B2C">>>>), DigitRun(1, 2),
                Lit(<<"U4E16", "U7EAA">>)>>],
   \* (古代|近代|现代|当代|上古|中古|近世)
   [type |-> "relative_period", priority |-> 3,
    regex |-> <<Alt(TRUE, FALSE,
                    <<<<"U53E4", "U4EE3">>, <<"U8FD1", "U4EE3">>, <<"U73B0", "U4EE3">>,
                      <<"U5F53", "U4EE3">>, <<"U4E0A", "U53E4">>, <<"U4E2D", "U53E4">>,
                      <<"U8FD1", "U4E16">>>>)>>],
   \* (\d{1,2})月(\d{1,2})日
   [type |-> "month_day", priority |-> 1,
    regex |-> <<DigitRun(1, 2), Lit(<<"U6708">>), DigitRun(1, 2), Lit(<<"U65E5">>)>>],
   \* (春|夏|秋|冬)(?:季|天)
   [type |-> "season", priority |-> 3,
    regex |-> <<Alt(TRUE, FALSE, <<<<"U6625">>, <<"U590F">>, <<"U79CB">>, <<"U51AC">>>>),
                Alt(FALSE, FALSE, <<<<"U5B63">>, <<"U5929">>>>)>>],
   \* (春秋战国|魏晋南北朝|隋唐|宋元|明清|民国|新中国)(?:时期|时代)?
   [type |-> "historical_period", priority |-> 2,
    regex |-> <<Alt(TRUE, FALSE,
                    <<<<"U6625", "U79CB", "U6218", "U56FD">>,
                      <<"U9B4F", "U664B", "U5357", "U5317", "U671D">>,
                      <<"U968B", "U5510">>, <<"U5B8B", "U5143">>, <<"U660E", "U6E05">>,
                      <<"U6C11", "U56FD">>, <<"U65B0", "U4E2D", "U56FD">>>>),
                Alt(FALSE, TRUE, <<<<"U65F6", "U671F">>, <<"U65F6", "U4EE3">>>>)>>]
  >>

\* The period table, in declaration order (a dict keeps insertion order).
\* description stands for the entry's descriptive text.
_init_dynasty_periods ==
  <<
   \* 夏朝: 中国第一个世袭制王朝
   [name |-> <<"U590F", "U671D">>, start |-> -2070, end |-> -1600,
    description |-> "period 1"],
   \* 商朝: 青铜文明鼎盛时期
   [name |-> <<"U5546", "U671D">>, start |-> -1600, end |-> -1046,
    description |-> "period 2"],
   \* 周朝: 中国历史上最长的朝代
   [name |-> <<"U5468", "U671D">>, start |-> -1046, end |-> -256,
    description |-> "period 3"],
   \* 春秋: 春秋时期
   [name |-> <<"U6625", "U79CB">>, start |-> -770, end |-> -476,
    description |-> "period 4"],
   \* 战国: 战国时期
   [name |-> <<"U6218", "U56FD">>, start |-> -475, end |-> -221,
    description |-> "period 5"],
   \* 秦朝: 中国第一个统一的封建王朝
   [name |-> <<"U79E6", "U671D">>, start |-> -221, end |-> -206,
    description |-> "period 6"],
   \* 汉朝: 西汉和东汉
   [name |-> <<"U6C49", "U671D">>, start |-> -206, end |-> 220,
    description |-> "period 7"],
   \* 三国: 魏蜀吴三国鼎立
   [name |-> <<"U4E09", "U56FD">>, start |-> 220, end |-> 280,
    description |-> "period 8"],
   \* 晋朝: 西晋和东晋
   [name |-> <<"U664B", "U671D">>, start |-> 265, end |-> 420,
    description |-> "period 9"],
   \* 南北朝: 南北朝对峙时期
   [name |-> <<"U5357", "U5317", "U671D">>, start |-> 420, end |-> 589,
    description |-> "period 10"],
   \* 隋朝: 短暂的统一王朝
   [name |-> <<"U968B", "U671D">>, start |-> 581, end |-> 618,
    description |-> "period 11"],
   \* 唐朝: 盛唐时期
   [name |-> <<"U5510", "U671D">>, start |-> 618, end |-> 907,
    description |-> "period 12"],
   \* 宋朝: 北宋和南宋
   [name |-> <<"U5B8B", "U671D">>, start |-> 960, end |-> 1279,
    description |-> "period 13"],
   \* 元朝: 蒙古族建立的王朝
   [name |-> <<"U5143", "U671D">>, start |-> 1271, end |-> 1368,
    description |-> "period 14"],
   \* 明朝: 汉族复兴的王朝
   [name |-> <<"U660E", "U671D">>, start |-> 1368, end |-> 1644,
    description |-> "period 15"],
   \* 清朝: 中国最后一个封建王朝
   [name |-> <<"U6E05", "U671D">>, start |-> 1644, end |-> 1912,
    description |-> "period 16"],
   \* 民国: 中华民国时期
   [name |-> <<"U6C11", "U56FD">>, start |-> 1912, end |-> 1949,
    description |-> "period 17"],
   \* 新中国: 中华人民共和国
   [name |-> <<"U65B0", "U4E2D", "U56FD">>, start |-> 1949, end |-> 2024,
    description |-> "period 18"]
  >>

\* The event keyword index, in declaration order.
_init_event_keywords ==
  <<
   \* 战争: 战争 战役 战斗 征战 攻打 围攻 进攻 防守 抵抗 起义 叛乱 革命 政变 兵变 民变 农民起义
   [event_type |-> <<"U6218", "U4E89">>,
    keywords |-> <<<<"U6218", "U4E89">>, <<"U6218", "U5F79">>, <<"U6218", "U6597">>, <<"U5F81", "U6218">>,
                  <<"U653B", "U6253">>, <<"U56F4", "U653B">>, <<"U8FDB", "U653B">>, <<"U9632", "U5B88">>,
                  <<"U62B5", "U6297">>, <<"U8D77", "U4E49">>, <<"U53DB", "U4E71">>, <<"U9769", "U547D">>,
                  <<"U653F", "U53D8">>, <<"U5175", "U53D8">>, <<"U6C11", "U53D8">>, <<"U519C", "U6C11", "U8D77", "U4E49">>>>],
   \* 政治: 建立 统一 分裂 灭亡 覆灭 建国 立国 称帝 登基 退位 禅让 篡位 政变 改革 变法 新政 政策
   [event_type |-> <<"U653F", "U6CBB">>,
    keywords |-> <<<<"U5EFA", "U7ACB">>, <<"U7EDF", "U4E00">>, <<"U5206", "U88C2">>, <<"U706D", "U4EA1">>,
                  <<"U8986", "U706D">>, <<"U5EFA", "U56FD">>, <<"U7ACB", "U56FD">>, <<"U79F0", "U5E1D">>,
                  <<"U767B", "U57FA">>, <<"U9000", "U4F4D">>, <<"U7985", "U8BA9">>, <<"U7BE1", "U4F4D">>,
                  <<"U653F", "U53D8">>, <<"U6539", "U9769">>, <<"U53D8", "U6CD5">>, <<"U65B0", "U653F">>,
                  <<"U653F", "U7B56">>>>],
   \* 文化: 发明 创造 著作 编写 撰写 创作 发现 开创 传播 兴起 发展 繁荣 衰落 复兴 改进 完善
   [event_type |-> <<"U6587", "U5316">>,
    keywords |-> <<<<"U53D1", "U660E">>, <<"U521B", "U9020">>, <<"U8457", "U4F5C">>, <<"U7F16", "U5199">>,
                  <<"U64B0", "U5199">>, <<"U521B", "U4F5C">>, <<"U53D1", "U73B0">>, <<"U5F00", "U521B">>,
                  <<"U4F20", "U64AD">>, <<"U5174", "U8D77">>, <<"U53D1", "U5C55">>, <<"U7E41", "U8363">>,
                  <<"U8870", "U843D">>, <<"U590D", "U5174">>, <<"U6539", "U8FDB">>, <<"U5B8C", "U5584">>>>],
   \* 经济: 贸易 商业 农业 手工业 货币 税收 赋税 经济 繁荣 发展 衰退 改革 开放 封闭 垄断 自由
   [event_type |-> <<"U7ECF", "U6D4E">>,
    keywords |-> <<<<"U8D38", "U6613">>, <<"U5546", "U4E1A">>, <<"U519C", "U4E1A">>, <<"U624B", "U5DE5", "U4E1A">>,
                  <<"U8D27", "U5E01">>, <<"U7A0E", "U6536">>, <<"U8D4B", "U7A0E">>, <<"U7ECF", "U6D4E">>,
                  <<"U7E41", "U8363">>, <<"U53D1", "U5C55">>, <<"U8870", "U9000">>, <<"U6539", "U9769">>,
                  <<"U5F00", "U653E">>, <<"U5C01", "U95ED">>, <<"U5784", "U65AD">>, <<"U81EA", "U7531">>>>],
   \* 社会: 迁移 迁都 人口 民族 宗教 信仰 习俗 制度 等级 阶层 社会 民生 生活 教育 科举 学校
   [event_type |-> <<"U793E", "U4F1A">>,
    keywords |-> <<<<"U8FC1", "U79FB">>, <<"U8FC1", "U90FD">>, <<"U4EBA", "U53E3">>, <<"U6C11", "U65CF">>,
                  <<"U5B97", "U6559">>, <<"U4FE1", "U4EF0">>, <<"U4E60", "U4FD7">>, <<"U5236", "U5EA6">>,
                  <<"U7B49", "U7EA7">>, <<"U9636", "U5C42">>, <<"U793E", "U4F1A">>, <<"U6C11", "U751F">>,
                  <<"U751F", "U6D3B">>, <<"U6559", "U80B2">>, <<"U79D1", "U4E3E">>, <<"U5B66", "U6821">>>>],
   \* 自然: 地震 洪水 干旱 饥荒 瘟疫 灾害 天灾 自然 气候 环境 生态 资源 开发 保护 破坏 恢复
   [event_type |-> <<"U81EA", "U7136">>,
    keywords |-> <<<<"U5730", "U9707">>, <<"U6D2A", "U6C34">>, <<"U5E72", "U65F1">>, <<"U9965", "U8352">>,
                  <<"U761F", "U75AB">>, <<"U707E", "U5BB3">>, <<"U5929", "U707E">>, <<"U81EA", "U7136">>,
                  <<"U6C14", "U5019">>, <<"U73AF", "U5883">>, <<"U751F", "U6001">>, <<"U8D44", "U6E90">>,
                  <<"U5F00", "U53D1">>, <<"U4FDD", "U62A4">>, <<"U7834", "U574F">>, <<"U6062", "U590D">>>>]
  >>

\* The instance after __init__ (time_modifiers, which no method reads, is left out).
TimelineExtractor ==
  [time_patterns   |-> _init_time_patterns,
   dynasty_periods |-> _init_dynasty_periods,
   event_keywords  |-> _init_event_keywords]

\* name in self.dynasty_periods
InPeriods(name) ==
  \E k \in 1..Len(self.dynasty_periods) : self.dynasty_periods[k].name = name

\* self.dynasty_periods[name]
PeriodOf(name) ==
  self.dynasty_periods[CHOOSE k \in 1..Len(self.dynasty_periods) :
                          self.dynasty_periods[k].name = name]

(***************************************************************************)
(* TimeExpressionExtractor.                                                *)
(***************************************************************************)
\* the fields _parse_time_expression may add, with their fillers
NoParsed ==
  [keys |-> {}, year |-> 0, normalized_year |-> 0, precision |-> "",
   dynasty |-> << >>, period |-> << >>, start_year |-> 0, end_year |-> 0,
   description |-> "", century |-> 0, month |-> 0, day |-> 0]

\* _parse_time_expression: the dict of parsed fields ({} when the type has no
\* branch or its name is no key of the period table).  int() of a captured
\* \d run never raises, so the except branch is not reachable from a match.
_parse_time_expression(time_expr) ==
  LET expr_type == time_expr.type
      groups    == time_expr.groups
  IN
  IF expr_type = "year"
  THEN [NoParsed EXCEPT !.keys = {"year", "normalized_year", "precision"},
                        !.year = int(groups[1]),
                        !.normalized_year = int(groups[1]),
                        !.precision = "year"]
  ELSE IF expr_type = "dynasty"
  THEN IF InPeriods(groups[1])
       THEN [NoParsed EXCEPT
               !.keys = {"dynasty", "start_year", "end_year", "description",
                         "precision"},
               !.dynasty = groups[1],
               !.start_year = PeriodOf(groups[1]).start,
               !.end_year = PeriodOf(groups[1]).end,
               !.description = PeriodOf(groups[1]).description,
               !.precision = "dynasty"]
       ELSE NoParsed
  ELSE IF expr_type = "century"
  THEN [NoParsed EXCEPT
          !.keys = {"century", "start_year", "end_year", "precision"},
          !.century = int(groups[1]),
          !.start_year = (int(groups[1]) - 1) * 100 + 1,
          !.end_year = int(groups[1]) * 100,
          !.precision = "century"]
  ELSE IF expr_type = "month_day"
  THEN [NoParsed EXCEPT !.keys = {"month", "day", "precision"},
                        !.month = int(groups[1]),
                        !.day = int(groups[2]),
                        !.precision = "day"]
  ELSE IF expr_type = "historical_period"
  THEN IF InPeriods(groups[1])
       THEN [NoParsed EXCEPT
               !.keys = {"period", "start_year", "end_year", "precision"},
               !.period = groups[1],
               !.start_year = PeriodOf(groups[1]).start,
               !.end_year = PeriodOf(groups[1]).end,
               !.precision = "period"]
       ELSE NoParsed
  ELSE NoParsed

\* the time_expr dict of one match, after time_expr.update(parsed_time)
TimeExpr(text, pattern_info, m) ==
  LET raw == [text |-> SubSeq(text, m.start + 1, m.end), type |-> pattern_info.type,
              start |-> m.start, end |-> m.end, groups |-> m.groups,
              priority |-> pattern_info.priority]
      parsed == _parse_time_expression(raw)
  IN  [f \in DOMAIN raw \cup DOMAIN parsed |->
         IF f \in DOMAIN raw THEN raw[f] ELSE parsed[f]]

\* _deduplicate_time_expressions: sorted by (start, priority), the first
\* expression of every (start, end) span is kept
RECURSIVE KeepFirstOfSpan(_, _)
KeepFirstOfSpan(exprs, seen_positions) ==
  IF Len(exprs) = 0 THEN << >>
  ELSE LET expr == Head(exprs)
           position_key == <<expr.start, expr.end>>
       IN  IF position_key \notin seen_positions
           THEN <<expr>> \o KeepFirstOfSpan(Tail(exprs), seen_positions \cup {position_key})
           ELSE KeepFirstOfSpan(Tail(exprs), seen_positions)

\* _deduplicate_time_expressions with the sort on the start alone
_deduplicate_time_expressions_by_start(time_expressions) ==
  IF Len(time_expressions) = 0 THEN << >>
  ELSE LET sorted_expressions ==
             sorted(time_expressions,
                    [k \in 1..Len(time_expressions) |-> <<time_expressions[k].start>>])
       IN  KeepFirstOfSpan(sorted_expressions, {})

_deduplicate_time_expressions(time_expressions) ==
  IF Len(time_expressions) = 0 THEN << >>
  ELSE LET sorted_expressions ==
             sorted(time_expressions,
                    [k \in 1..Len(time_expressions) |->
                       <<time_expressions[k].start, time_expressions[k].priority>>])
       IN  KeepFirstOfSpan(sorted_expressions, {})

\* the matches of the patterns ps (in that order), each pattern's in text order
RECURSIVE MatchesOf(_, _)
MatchesOf(ps, text) ==
  IF Len(ps) = 0 THEN << >>
  ELSE LET found == finditer(Head(ps).regex, text)
       IN  [k \in 1..Len(found) |-> TimeExpr(text, Head(ps), found[k])]
             \o MatchesOf(Tail(ps), text)

\* extract_time_expressions that leaves the expressions in the order of the
\* priority of their patterns
extract_time_expressions_by_priority(text, options) ==
  IF Len(text) = 0 THEN << >>
  ELSE LET sorted_patterns ==
             sorted(self.time_patterns,
                    [k \in 1..Len(self.time_patterns) |->
                       <<self.time_patterns[k].priority>>])
           time_expressions ==
             _deduplicate_time_expressions(MatchesOf(sorted_patterns, text))
       IN  sorted(time_expressions,
                  [k \in 1..Len(time_expressions) |-> <<time_expressions[k].priority>>])

\* extract_time_expressions(text, options)
extract_time_expressions(text, options) ==
  IF Len(text) = 0 THEN << >>
  ELSE LET sorted_patterns ==
             sorted(self.time_patterns,
                    [k \in 1..Len(self.time_patterns) |->
                       <<self.time_patterns[k].priority>>])
           time_expressions ==
             _deduplicate_time_expressions(MatchesOf(sorted_patterns, text))
       IN  sorted(time_expressions,
                  [k \in 1..Len(time_expressions) |-> <<time_expressions[k].start>>])

(***************************************************************************)
(* The Tokenizer capability (jieba), which is not part of the repository:  *)
(* a dictionary segmenter by forward maximum matching over Lexicon, a run  *)
(* of digits being one token and any other character a token of its own.   *)
(***************************************************************************)
Lexicon ==
  <<[word |-> <<"U4E2D", "U534E", "U4EBA", "U6C11", "U5171", "U548C", "U56FD">>,
     pos |-> "ns"],                                           \* 中华人民共和国
    [word |-> <<"U4E2D", "U56FD">>, pos |-> "ns"],            \* 中国
    [word |-> <<"U674E", "U767D">>, pos |-> "nr"],            \* 李白
    [word |-> <<"U675C", "U752B">>, pos |-> "nr"],            \* 杜甫
    [word |-> <<"U957F", "U5B89">>, pos |-> "ns"],            \* 长安
    [word |-> <<"U5317", "U4EAC">>, pos |-> "ns"],            \* 北京
    [word |-> <<"U6D1B", "U9633">>, pos |-> "ns"],            \* 洛阳
    [word |-> <<"U7687", "U5E1D">>, pos |-> "n"],             \* 皇帝
    [word |-> <<"U79D1", "U4E3E">>, pos |-> "n"],             \* 科举
    [word |-> <<"U5510", "U671D">>, pos |-> "t"],             \* 唐朝
    [word |-> <<"U660E", "U671D">>, pos |-> "t"],             \* 明朝
    [word |-> <<"U6E05", "U671D">>, pos |-> "t"],             \* 清朝
    [word |-> <<"U6625", "U79CB">>, pos |-> "t"],             \* 春秋
    [word |-> <<"U4E16", "U7EAA">>, pos |-> "n"],             \* 世纪
    [word |-> <<"U6218", "U4E89">>, pos |-> "n"],             \* 战争
    [word |-> <<"U5EFA", "U7ACB">>, pos |-> "v"],             \* 建立
    [word |-> <<"U6210", "U7ACB">>, pos |-> "v"]>>            \* 成立

\* the longest word of Lexicon that stands in text at offset i (0: none)
LongestWordAt(text, i) ==
  LET hits == {k \in 1..Len(Lexicon) : LitAt(text, i, Lexicon[k].word)}
  IN  IF hits = {} THEN 0
      ELSE CHOOSE k \in hits : \A j \in hits : Len(Lexicon[j].word) <= Len(Lexicon[k].word)

\* jieba.posseg.lcut(text): the (word, pos) pairs
RECURSIVE SegmentFrom(_, _)
SegmentFrom(text, i) ==
  IF i >= Len(text) THEN << >>
  ELSE LET k == LongestWordAt(text, i)
           d == DigitsAt(text, i, Len(text))
       IN  IF k > 0
           THEN <<Lexicon[k]>> \o SegmentFrom(text, i + Len(Lexicon[k].word))
           ELSE IF d > 0
           THEN <<[word |-> SubSeq(text, i + 1, i + d), pos |-> "m"]>>
                  \o SegmentFrom(text, i + d)
           ELSE <<[word |-> <<text[i + 1]>>, pos |-> "x"]>> \o SegmentFrom(text, i + 1)

pseg_lcut(text) == SegmentFrom(text, 0)

\* jieba.lcut(sentence): the words
jieba_lcut(sentence) ==
  LET tagged == pseg_lcut(sentence) IN [k \in 1..Len(tagged) |-> tagged[k].word]

\* ''.join(words)
RECURSIVE join(_)
join(words) == IF Len(words) = 0 THEN << >> ELSE Head(words) \o join(Tail(words))

(***************************************************************************)
(* EventClassifier and EventBuilder.                                       *)
(***************************************************************************)
Other == <<"U5176", "U4ED6">>     \* '其他'

Range(s) == {s[k] : k \in 1..Len(s)}

\* _classify_event_type with the last of the types of the highest score
_classify_event_type_last_declared(words) ==
  LET word_set == Range(words)
      score(k) == Cardinality(word_set \cap Range(self.event_keywords[k].keywords))
      scored   == {k \in 1..Len(self.event_keywords) : score(k) > 0}
  IN  IF scored # {}
      THEN self.event_keywords[
             CHOOSE k \in scored :
               \A j \in scored : score(j) < score(k) \/ (score(j) = score(k) /\ k >= j)
           ].event_type
      ELSE Other

\* _classify_event_type: type_scores holds, in declaration order, the types of
\* positive score; max(type_scores, key=type_scores.get) is the first of the
\* highest score
_classify_event_type(words) ==
  LET word_set == Range(words)
      score(k) == Cardinality(word_set \cap Range(self.event_keywords[k].keywords))
      scored   == {k \in 1..Len(self.event_keywords) : score(k) > 0}
  IN  IF scored # {}
      THEN self.event_keywords[
             CHOOSE k \in scored :
               \A j \in scored : score(j) < score(k) \/ (score(j) = score(k) /\ k <= j)
           ].event_type
      ELSE Other

\* _extract_entities: the words tagged nr, ns, nt, or n / nz with two characters
\* or more, in text order
EntityType(word, pos) ==
  IF pos = "nr" THEN <<"U4EBA", "U7269">>                       \* '人物'
  ELSE IF pos = "ns" THEN <<"U5730", "U70B9">>                  \* '地点'
  ELSE IF pos = "nt" THEN <<"U673A", "U6784">>                  \* '机构'
  ELSE IF pos \in {"n", "nz"} /\ Len(word) >= 2 THEN <<"U6982", "U5FF5">>   \* '概念'
  ELSE << >>

_extract_entities(words) ==
  LET words_with_pos == pseg_lcut(join(words))
      keep == SelectSeq(words_with_pos, LAMBDA wp : EntityType(wp.word, wp.pos) # << >>)
  IN  [k \in 1..Len(keep) |->
         [text |-> keep[k].word, type |-> EntityType(keep[k].word, keep[k].pos),
          pos |-> keep[k].pos]]

\* 的 了 在 是 有 和 就 不 人 都 一
stop_words ==
  {<<"U7684">>, <<"U4E86">>, <<"U5728">>, <<"U662F">>, <<"U6709">>, <<"U548C">>,
   <<"U5C31">>, <<"U4E0D">>, <<"U4EBA">>, <<"U90FD">>, <<"U4E00">>}

\* _extract_event_keywords: the first 10 words of two characters or more
_extract_event_keywords(words) ==
  LET keywords == SelectSeq(words, LAMBDA w : Len(w) >= 2 /\ w \notin stop_words)
  IN  SubSeq(keywords, 1, Min(Len(keywords), 10))

\* _calculate_event_confidence without its two min(): every time expression
\* adds 0.2 and the sum is returned as it is
_calculate_event_confidence_uncapped(sentence, time_expressions, event_type) ==
  LET base    == 0 + 30
      timed   == base + Len(time_expressions) * 20
      lengthy == IF 10 <= Len(sentence) /\ Len(sentence) <= 100
                 THEN timed + 20 ELSE timed
  IN  IF event_type # Other THEN lengthy + 10 ELSE lengthy

\* _calculate_event_confidence that adds 0.1 for each time expression
_calculate_event_confidence_tenth_each(sentence, time_expressions, event_type) ==
  LET base    == 0 + 30
      timed   == base + Min(Len(time_expressions) * 10, 40)
      lengthy == IF 10 <= Len(sentence) /\ Len(sentence) <= 100
                 THEN timed + 20 ELSE timed
      typed   == IF event_type # Other THEN lengthy + 10 ELSE lengthy
  IN  Min(typed, 100)

\* _calculate_event_confidence, in hundredths
_calculate_event_confidence(sentence, time_expressions, event_type) ==
  LET base    == 0 + 30
      timed   == base + Min(Len(time_expressions) * 20, 40)
      lengthy == IF 10 <= Len(sentence) /\ Len(sentence) <= 100
                 THEN timed + 20 ELSE timed
      typed   == IF event_type # Other THEN lengthy + 10 ELSE lengthy
  IN  Min(typed, 100)

\* PrecisionRank with the finest precision, 'day', ranked above 'year'
PrecisionRank_day_first(time_expr) ==
  LET precision == IF "precision" \in time_expr.keys THEN time_expr.precision ELSE ""
  IN  CASE precision = "day"       -> 5
        [] precision = "year"      -> 4
        [] precision = "dynasty"   -> 2
        [] precision = "century"   -> 2
        [] precision = "period"    -> 1
        [] OTHER                   -> 0

\* precision_map.get(time_expr.get('precision', ''), 0)
PrecisionRank(time_expr) ==
  LET precision == IF "precision" \in time_expr.keys THEN time_expr.precision ELSE ""
  IN  CASE precision = "year"            -> 4
        [] precision = "month_day"       -> 3
        [] precision = "dynasty"         -> 2
        [] precision = "century"         -> 2
        [] precision = "period"          -> 1
        [] precision = "relative_period" -> 0
        [] OTHER                         -> 0

\* the loop of _normalize_event_time: the index of best_time (0: None), the
\* first expression whose rank exceeds every earlier one's and 0
RECURSIVE BestTime(_, _, _, _)
BestTime(time_expressions, k, best_time, best_precision) ==
  IF k > Len(time_expressions) THEN best_time
  ELSE IF PrecisionRank(time_expressions[k]) > best_precision
       THEN BestTime(time_expressions, k + 1, k, PrecisionRank(time_expressions[k]))
       ELSE BestTime(time_expressions, k + 1, best_time, best_precision)

\* the fields _normalize_event_time may add to an event, with their fillers
NoNormalized ==
  [keys |-> {}, primary_time |-> << >>, time_precision |-> "",
   normalized_year |-> 0, year_range |-> << >>]

\* _normalize_event_time (None is the dict of no key)
_normalize_event_time(time_expressions) ==
  LET b == BestTime(time_expressions, 1, 0, 0) IN
  IF Len(time_expressions) = 0 \/ b = 0 THEN NoNormalized
  ELSE LET best_time == time_expressions[b]
           base == [NoNormalized EXCEPT
                      !.keys = {"primary_time", "time_precision"},
                      !.primary_time = best_time,
                      !.time_precision = IF "precision" \in best_time.keys
                                         THEN best_time.precision ELSE "unknown"]
       IN  IF "year" \in best_time.keys
           THEN [base EXCEPT !.keys = @ \cup {"normalized_year"},
                             !.normalized_year = best_time.year]
           ELSE IF "start_year" \in best_time.keys
           THEN [base EXCEPT !.keys = @ \cup {"normalized_year", "year_range"},
                             !.normalized_year = best_time.start_year,
                             !.year_range = <<best_time.start_year, best_time.end_year>>]
           ELSE base

\* _extract_event_from_sentence: the list of the event, empty for None
_extract_event_from_sentence(sentence, time_expressions, sentence_index) ==
  LET words == jieba_lcut(sentence)
      event_type == _classify_event_type(words)
      normalized_time == _normalize_event_time(time_expressions)
      event == [sentence |-> sentence,
                sentence_index |-> sentence_index,
                time_expressions |-> time_expressions,
                event_type |-> event_type,
                entities |-> _extract_entities(words),
                keywords |-> _extract_event_keywords(words),
                confidence |-> _calculate_event_confidence(sentence, time_expressions,
                                                            event_type)]
  IN  IF Len(sentence) = 0 \/ Len(time_expressions) = 0 THEN << >>
      ELSE <<[f \in DOMAIN event \cup DOMAIN normalized_time |->
                IF f \in DOMAIN event THEN event[f] ELSE normalized_time[f]]>>

\* 。 ！ ？ ； and the newline
SentenceEnd == {"U3002", "UFF01", "UFF1F", "UFF1B", "NL"}

\* re.split(r'[。！？；\n]+', text): the pieces between the runs of separators
RECURSIVE re_split(_, _)
re_split(text, piece) ==
  IF Len(text) = 0 THEN <<piece>>
  ELSE IF Head(text) \in SentenceEnd
       THEN IF Len(text) > 1 /\ text[2] \in SentenceEnd
            THEN re_split(Tail(text), piece)
            ELSE <<piece>> \o re_split(Tail(text), << >>)
       ELSE re_split(Tail(text), Append(piece, Head(text)))

\* _split_sentences: the stripped pieces that are not empty
_split_sentences(text) ==
  LET pieces == re_split(text, << >>)
      kept   == SelectSeq(pieces, LAMBDA s : Len(strip(s)) > 0)
  IN  [k \in 1..Len(kept) |-> strip(kept[k])]

\* _is_time_in_sentence that looks for the expression at the start of the
\* sentence only
_is_time_in_sentence_at_start(time_expr, sentence, full_text) ==
  /\ Len(time_expr.text) <= Len(sentence)
  /\ SubSeq(sentence, 1, Len(time_expr.text)) = time_expr.text

\* _is_time_in_sentence
_is_time_in_sentence(time_expr, sentence, full_text) ==
  IsSubstring(time_expr.text, sentence)

\* an options dict: the keys given and their values
NoOptions ==
  [keys |-> {}, min_confidence |-> 0, max_events |-> 0, group_by |-> "",
   max_events_per_node |-> 0]

\* get_sort_key that keeps the order of the sentences
get_sort_key_by_sentence(event) == event.sentence_index

\* get_sort_key of _post_process_events
get_sort_key(event) ==
  IF "normalized_year" \in event.keys THEN event.normalized_year
  ELSE IF Len(event.time_expressions) > 0 THEN event.time_expressions[1].start
  ELSE event.sentence_index

\* _post_process_events that cuts the list to max_events before it filters
_post_process_events_cut_first(events, options) ==
  IF Len(events) = 0 THEN << >>
  ELSE LET min_confidence == IF "min_confidence" \in options.keys
                             THEN options.min_confidence ELSE 30
           sorted_events ==
             sorted(events, [k \in 1..Len(events) |-> <<get_sort_key(events[k])>>])
           max_events == IF "max_events" \in options.keys THEN options.max_events ELSE 50
           cut == IF Len(sorted_events) > max_events
                  THEN SubSeq(sorted_events, 1, max_events)
                  ELSE sorted_events
       IN  SelectSeq(cut, LAMBDA e : e.confidence >= min_confidence)

\* _post_process_events
_post_process_events(events, options) ==
  IF Len(events) = 0 THEN << >>
  ELSE LET min_confidence == IF "min_confidence" \in options.keys
                             THEN options.min_confidence ELSE 30
           filtered_events == SelectSeq(events, LAMBDA e : e.confidence >= min_confidence)
           sorted_events ==
             sorted(filtered_events,
                    [k \in 1..Len(filtered_events) |-> <<get_sort_key(filtered_events[k])>>])
           max_events == IF "max_events" \in options.keys THEN options.max_events ELSE 50
       IN  IF Len(sorted_events) > max_events
           THEN SubSeq(sorted_events, 1, max_events)
           ELSE sorted_events

\* the loop of extract_events over the sentences from the i-th on
RECURSIVE EventsFrom(_, _, _, _)
EventsFrom(sentences, i, time_expressions, text) ==
  IF i > Len(sentences) THEN << >>
  ELSE LET sentence == sentences[i]
           sentence_times ==
             SelectSeq(time_expressions,
                       LAMBDA time_expr : _is_time_in_sentence(time_expr, sentence, text))
       IN  (IF Len(sentence_times) > 0
            THEN _extract_event_from_sentence(sentence, sentence_times, i - 1)
            ELSE << >>)
             \o EventsFrom(sentences, i + 1, time_expressions, text)

\* extract_events(text, time_expressions, options); time_expressions is
\* [is_none |-> TRUE] for None
extract_events(text, time_expressions, options) ==
  IF Len(text) = 0 THEN << >>
  ELSE LET exprs == IF time_expressions.is_none
                    THEN extract_time_expressions(text, options)
                    ELSE time_expressions.value
       IN  _post_process_events(EventsFrom(_split_sentences(text), 1, exprs, text),
                                options)

(***************************************************************************)
(* TimelineAggregator.                                                     *)
(***************************************************************************)
\* the key of a year that merges the years of a hundred
year_key_by_hundreds(year) == str(year \div 100)

\* the group key of group_by = 'year'
year_key(year) == str(year)

\* the periods that hold a year strictly between their start and their end
PeriodsContaining_open(year) ==
  {k \in 1..Len(self.dynasty_periods) :
      /\ self.dynasty_periods[k].start < year
      /\ year < self.dynasty_periods[k].end}

\* the entries of the period table with period['start'] <= year <= period['end']
PeriodsContaining(year) ==
  {k \in 1..Len(self.dynasty_periods) :
      /\ self.dynasty_periods[k].start <= year
      /\ year <= self.dynasty_periods[k].end}

\* the last, in table order, of the entries that hold the year
first_period_latest(in_period) == CHOOSE k \in in_period : \A j \in in_period : k >= j

\* the entry at which the loop over dynasty_periods.items() returns: the first,
\* in table order, of the entries that hold the year
first_period(in_period) == CHOOSE k \in in_period : \A j \in in_period : k <= j

\* _get_timeline_group_key (None is the empty str, which is as falsy)
_get_timeline_group_key(event, options) ==
  LET group_by == IF "group_by" \in options.keys THEN options.group_by ELSE "century"
      year == event.normalized_year
      in_period == PeriodsContaining(year)
      dynasty_exprs == SelectSeq(event.time_expressions,
                                 LAMBDA time_expr : time_expr.type = "dynasty")
  IN
  IF "normalized_year" \in event.keys /\ group_by = "century"
  THEN IF year > 0
       THEN str((year - 1) \div 100 + 1) \o <<"U4E16", "U7EAA">>          \* N世纪
       ELSE <<"U516C", "U5143", "U524D">>                                  \* 公元前N世纪
              \o str((IF year < 0 THEN -year ELSE year) \div 100 + 1)
              \o <<"U4E16", "U7EAA">>
  ELSE IF "normalized_year" \in event.keys /\ group_by = "dynasty"
  THEN IF in_period # {}
       THEN self.dynasty_periods[first_period(in_period)].name
       ELSE <<"U672A", "U77E5", "U65F6", "U671F">>                         \* '未知时期'
  ELSE IF "normalized_year" \in event.keys /\ group_by = "year"
  THEN year_key(year)
  ELSE IF Len(dynasty_exprs) > 0
  THEN IF "dynasty" \in dynasty_exprs[1].keys
       THEN dynasty_exprs[1].dynasty
       ELSE <<"U672A", "U77E5", "U671D", "U4EE3">>                         \* '未知朝代'
  ELSE << >>

\* a defaultdict(int) counted over items: (key, count) in order of first occurrence
RECURSIVE CountInto(_, _)
CountInto(items, counter) ==
  IF Len(items) = 0 THEN counter
  ELSE LET at == {k \in 1..Len(counter) : counter[k].key = Head(items)}
       IN  IF at = {}
           THEN CountInto(Tail(items), Append(counter, [key |-> Head(items), count |-> 1]))
           ELSE CountInto(Tail(items),
                          [counter EXCEPT ![CHOOSE k \in at : TRUE].count = @ + 1])

\* the years list of _create_timeline_node
RECURSIVE NodeYears(_)
NodeYears(events) ==
  IF Len(events) = 0 THEN << >>
  ELSE (IF "normalized_year" \in Head(events).keys
        THEN <<Head(events).normalized_year>>
        ELSE IF "year_range" \in Head(events).keys
        THEN Head(events).year_range
        ELSE << >>)
         \o NodeYears(Tail(events))

\* the year of the first event of the list in place of the least one
min_first_seen(years) == years[1]

\* min(years), max(years) of a non-empty list
min(years) == CHOOSE y \in Range(years) : \A z \in Range(years) : y <= z
max(years) == CHOOSE y \in Range(years) : \A z \in Range(years) : y >= z

\* the entity texts of the events, in order
RECURSIVE EntityTexts(_)
EntityTexts(events) ==
  IF Len(events) = 0 THEN << >>
  ELSE [k \in 1..Len(Head(events).entities) |-> Head(events).entities[k].text]
         \o EntityTexts(Tail(events))

\* sorted(entity_counter.items(), key=lambda x: x[1], reverse=True)[:n]
TopEntities(events, n) ==
  LET entity_counter == CountInto(EntityTexts(events), << >>)
      ranked == sorted_reverse(entity_counter,
                               [k \in 1..Len(entity_counter) |-> <<entity_counter[k].count>>])
  IN  SubSeq(ranked, 1, Min(Len(ranked), n))

\* _create_timeline_node whose event_count is the length of the events list
\* it keeps
_create_timeline_node_counting_listed(group_key, events, options) ==
  LET years == NodeYears(events)
      event_types == CountInto([k \in 1..Len(events) |-> events[k].event_type], << >>)
      top_entities == TopEntities(events, 10)
      max_events_per_node == IF "max_events_per_node" \in options.keys
                             THEN options.max_events_per_node ELSE 10
  IN  [period |-> group_key,
       event_count |-> Min(Len(events), max_events_per_node),
       events |-> SubSeq(events, 1, Min(Len(events), max_events_per_node)),
       event_types |-> event_types,
       top_entities |-> [k \in 1..Len(top_entities) |->
                           [name |-> top_entities[k].key, count |-> top_entities[k].count]],
       time_range |-> IF Len(years) > 0
                      THEN [is_none |-> FALSE, start |-> min(years), end |-> max(years)]
                      ELSE [is_none |-> TRUE, start |-> 0, end |-> 0],
       sort_key |-> IF Len(years) > 0 THEN min(years) ELSE 0]

\* _create_timeline_node (events is never empty where it is called)
_create_timeline_node(group_key, events, options) ==
  LET years == NodeYears(events)
      event_types == CountInto([k \in 1..Len(events) |-> events[k].event_type], << >>)
      top_entities == TopEntities(events, 10)
      max_events_per_node == IF "max_events_per_node" \in options.keys
                             THEN options.max_events_per_node ELSE 10
  IN  [period |-> group_key,
       event_count |-> Len(events),
       events |-> SubSeq(events, 1, Min(Len(events), max_events_per_node)),
       event_types |-> event_types,
       top_entities |-> [k \in 1..Len(top_entities) |->
                           [name |-> top_entities[k].key, count |-> top_entities[k].count]],
       time_range |-> IF Len(years) > 0
                      THEN [is_none |-> FALSE, start |-> min(years), end |-> max(years)]
                      ELSE [is_none |-> TRUE, start |-> 0, end |-> 0],
       sort_key |-> IF Len(years) > 0 THEN min(years) ELSE 0]

\* the normalized years of the events that have one
RECURSIVE AllYears(_)
AllYears(events) ==
  IF Len(events) = 0 THEN << >>
  ELSE (IF "normalized_year" \in Head(events).keys
        THEN <<Head(events).normalized_year>> ELSE << >>)
         \o AllYears(Tail(events))

\* _calculate_timeline_stats
_calculate_timeline_stats(timeline_nodes, events) ==
  LET all_years == AllYears(events)
      top_entities == TopEntities(events, 20)
  IN  [total_periods |-> Len(timeline_nodes),
       total_events |-> Len(events),
       event_distribution |->
         CountInto([k \in 1..Len(events) |-> events[k].event_type], << >>),
       entity_distribution |-> top_entities,
       time_span |-> IF Len(all_years) > 0
                     THEN [keys |-> {"earliest", "latest", "span_years"},
                           earliest |-> min(all_years),
                           latest |-> max(all_years),
                           span_years |-> max(all_years) - min(all_years)]
                     ELSE [keys |-> {}, earliest |-> 0, latest |-> 0, span_years |-> 0]]

\* timeline_groups: (key, events) in order of first occurrence of the key
RECURSIVE GroupInto(_, _, _)
GroupInto(events, options, timeline_groups) ==
  IF Len(events) = 0 THEN timeline_groups
  ELSE LET event == Head(events)
           group_key == _get_timeline_group_key(event, options)
           at == {k \in 1..Len(timeline_groups) : timeline_groups[k].key = group_key}
       IN  IF Len(group_key) = 0
           THEN GroupInto(Tail(events), options, timeline_groups)
           ELSE IF at = {}
           THEN GroupInto(Tail(events), options,
                          Append(timeline_groups, [key |-> group_key, events |-> <<event>>]))
           ELSE GroupInto(Tail(events), options,
                          [timeline_groups EXCEPT
                             ![CHOOSE k \in at : TRUE].events = Append(@, event)])

\* the dict build_timeline returns for no event
NoTimeline ==
  [keys |-> {}, timeline |-> << >>,
   statistics |-> _calculate_timeline_stats(<< >>, << >>),
   total_events |-> 0, total_periods |-> 0]

\* build_timeline(events, options)
build_timeline(events, options) ==
  IF Len(events) = 0 THEN NoTimeline
  ELSE LET timeline_groups == GroupInto(events, options, << >>)
           nodes == [k \in 1..Len(timeline_groups) |->
                       _create_timeline_node(timeline_groups[k].key,
                                             timeline_groups[k].events, options)]
           timeline_nodes == sorted(nodes, [k \in 1..Len(nodes) |-> <<nodes[k].sort_key>>])
       IN  [keys |-> {"timeline", "statistics", "total_events", "total_periods"},
            timeline |-> timeline_nodes,
            statistics |-> _calculate_timeline_stats(timeline_nodes, events),
            total_events |-> Len(events),
            total_periods |-> Len(timeline_nodes)]

(***************************************************************************)
(* analyze.                                                                *)
(***************************************************************************)
\* the options dict of analyze: its own keys and the three nested dicts
NoAnalyzeOptions ==
  [keys |-> {}, min_confidence |-> 0, max_events |-> 0, group_by |-> "",
   time_extraction |-> NoOptions, event_extraction |-> NoOptions,
   timeline_building |-> NoOptions]

\* options.get(key, {}) for a nested dict
Nested(options, key) == IF key \in options.keys THEN options[key] ELSE NoOptions

\* the dict analyze returns for no text
NoResult ==
  [keys |-> {}, time_expressions |-> << >>, events |-> << >>, timeline |-> NoTimeline,
   summary |-> [time_expressions_count |-> 0, events_count |-> 0, timeline_periods |-> 0]]

\* the summary with a period counted where the timeline has none
summary_default_one(time_expressions, events, timeline) ==
  [time_expressions_count |-> Len(time_expressions),
   events_count |-> Len(events),
   timeline_periods |-> IF "total_periods" \in timeline.keys
                        THEN timeline.total_periods ELSE 1]

\* the summary of analyze's result
summary(time_expressions, events, timeline) ==
  [time_expressions_count |-> Len(time_expressions),
   events_count |-> Len(events),
   timeline_periods |-> IF "total_periods" \in timeline.keys
                        THEN timeline.total_periods ELSE 0]

\* analyze(text, options): what it returns
analyze_return(text, options) ==
  IF Len(text) = 0 THEN NoResult
  ELSE LET time_expressions ==
             extract_time_expressions(text, Nested(options, "time_extraction"))
           events ==
             extract_events(text, [is_none |-> FALSE, value |-> time_expressions],
                            Nested(options, "event_extraction"))
           timeline == build_timeline(events, Nested(options, "timeline_building"))
       IN  [keys |-> {"time_expressions", "events", "timeline", "summary"},
            time_expressions |-> time_expressions,
            events |-> events,
            timeline |-> timeline,
            summary |-> summary(time_expressions, events, timeline)]

(***************************************************************************)
(* The inputs the operations are called with.                              *)
(***************************************************************************)
Fragments ==
  {<<"1", "9", "4", "9", "U5E74">>,                        \* 1949年
   <<"1", "0", "U6708", "1", "U65E5">>,                    \* 10月1日
   <<"2", "0", "U4E16", "U7EAA">>,                         \* 20世纪
   <<"U6625", "U79CB">>,                                   \* 春秋
   <<"U5510", "U671D">>,                                   \* 唐朝
   <<"U660E", "U671D">>,                                   \* 明朝
   <<"U6E05", "U671D">>,                                   \* 清朝
   <<"U5EFA", "U7ACB">>,                                   \* 建立
   <<"U3002">>,                                            \* 。
   <<"SP">>,
   \* ，中华人民共和国成立。
   <<"UFF0C", "U4E2D", "U534E", "U4EBA", "U6C11", "U5171", "U548C", "U56FD",
     "U6210", "U7ACB", "U3002">>}

\* the texts of n fragments
RECURSIVE TextsOf(_)
TextsOf(n) ==
  IF n = 0 THEN {<< >>}
  ELSE {t \o f : t \in TextsOf(n - 1), f \in Fragments}

Texts == UNION {TextsOf(n) : n \in 0..MaxFrags}

\* the options analyze is called with: none, group_by at the top level, and
\* group_by inside timeline_building
AnalyzeOptions ==
  {NoAnalyzeOptions,
   [NoAnalyzeOptions EXCEPT !.keys = {"group_by"}, !.group_by = "dynasty"],
   [NoAnalyzeOptions EXCEPT
      !.keys = {"timeline_building"},
      !.timeline_building = [NoOptions EXCEPT !.keys = {"group_by"},
                                              !.group_by = "dynasty"]]}

(***************************************************************************)
(* The state machine.  A behaviour is one call on the instance: Init draws *)
(* the operation's arguments and the action runs it to its return.         *)
(***************************************************************************)
NotReturned == [done |-> FALSE, value |-> << >>]

NoLog == [seen |-> FALSE, args |-> << >>, value |-> << >>]

\* TimelineExtractor() followed by a call of operation o with arguments in inputs
Called(o, inputs) ==
  /\ self = TimelineExtractor
  /\ op = o
  /\ args \in inputs
  /\ ret = NotReturned
  /\ log = NoLog

\* analyze that takes the patterns out of the catalog as it goes through them
analyze_consuming ==
  /\ op = "analyze"
  /\ ~ret.done
  /\ ret' = [done |-> TRUE, value |-> analyze_return(args.text, args.options)]
  /\ self' = [self EXCEPT !.time_patterns = << >>]
  /\ UNCHANGED <<op, args>>

\* analyze(text, options)
analyze ==
  /\ op = "analyze"
  /\ ~ret.done
  /\ ret' = [done |-> TRUE, value |-> analyze_return(args.text, args.options)]
  /\ UNCHANGED <<self, op, args>>

Init == Called("analyze", [text : Texts, options : AnalyzeOptions])

Next == analyze /\ UNCHANGED log

Spec == Init /\ [][Next]_vars

(***************************************************************************)
(* _deduplicate_time_expressions on lists of raw matches (SpecDedup).      *)
(***************************************************************************)
\* the raw matches: a span within 0..MaxPos and a pattern of each priority
RawMatches ==
  {[type |-> p.type, priority |-> p.priority, start |-> a, end |-> b] :
     p \in {q \in Range(_init_time_patterns) : q.type \in {"year", "dynasty", "season"}},
     a \in 0..(MaxPos - 1), b \in 1..MaxPos}

RawLists ==
  UNION {{s \in [1..n -> RawMatches] : \A k \in 1..n : s[k].start < s[k].end}
           : n \in 0..MaxRaw}

_deduplicate ==
  /\ op = "_deduplicate_time_expressions"
  /\ ~ret.done
  /\ ret' = [done |-> TRUE, value |-> _deduplicate_time_expressions(args.time_expressions)]
  /\ UNCHANGED <<self, op, args, log>>

InitDedup ==
  Called("_deduplicate_time_expressions", {[time_expressions |-> s] : s \in RawLists})

SpecDedup == InitDedup /\ [][_deduplicate]_vars

(***************************************************************************)
(* _calculate_event_confidence on its three arguments (SpecConfidence).    *)
(***************************************************************************)
EventTypes == {self.event_keywords[k].event_type : k \in 1..Len(self.event_keywords)}
                \cup {Other}

_confidence ==
  /\ op = "_calculate_event_confidence"
  /\ ~ret.done
  /\ ret' = [done |-> TRUE,
             value |-> _calculate_event_confidence(args.sentence, args.time_expressions,
                                                   args.event_type)]
  /\ UNCHANGED <<self, op, args, log>>

\* a sentence of every length, one time expression or more, every event type
InitConfidence ==
  Called("_calculate_event_confidence",
         {[sentence |-> [k \in 1..n |-> "x"],
           time_expressions |-> [k \in 1..m |-> [type |-> "year", start |-> k - 1]],
           event_type |-> t] :
            n \in 1..MaxSentenceLength, m \in 1..MaxTimeExpressions, t \in EventTypes})

SpecConfidence == InitConfidence /\ [][_confidence]_vars

(***************************************************************************)
(* extract_events on a text, then build_timeline on the events it returned *)
(* (SpecTimeline).                                                         *)
(***************************************************************************)
None == [is_none |-> TRUE, value |-> << >>]

TimelineOptions ==
  {NoOptions}
  \cup {[NoOptions EXCEPT !.keys = {"group_by"}, !.group_by = g] :
          g \in {"year", "century", "dynasty", "decade"}}

\* extract_events(text, time_expressions, options)
_extract_events ==
  /\ op = "extract_events"
  /\ ~ret.done
  /\ ret' = [done |-> TRUE,
             value |-> extract_events(args.text, args.time_expressions, args.options)]
  /\ UNCHANGED <<self, op, args, log>>

\* build_timeline(events, options), called with the events extract_events returned
_build_timeline(options) ==
  /\ op = "extract_events"
  /\ ret.done
  /\ op' = "build_timeline"
  /\ args' = [events |-> ret.value, options |-> options]
  /\ ret' = [done |-> TRUE, value |-> build_timeline(ret.value, options)]
  /\ UNCHANGED <<self, log>>

InitTimeline ==
  Called("extract_events",
         [text : Texts, time_expressions : {None}, options : {NoOptions}])

NextTimeline ==
  \/ _extract_events
  \/ \E options \in TimelineOptions : _build_timeline(options)

SpecTimeline == InitTimeline /\ [][NextTimeline]_vars

(***************************************************************************)
(* Calls of analyze one after the other on one instance (SpecRepeat).      *)
(***************************************************************************)
\* the texts of at most one fragment, the dated sentence and two sentences
RepeatTexts ==
  TextsOf(0) \cup TextsOf(1)
  \cup {<<"1", "9", "4", "9", "U5E74", "1", "0", "U6708", "1", "U65E5",
          "UFF0C", "U4E2D", "U534E", "U4EBA", "U6C11", "U5171", "U548C", "U56FD",
          "U6210", "U7ACB", "U3002">>,
        <<"U6625", "U79CB", "U3002", "1", "9", "4", "9", "U5E74">>}

RepeatInputs == [text : RepeatTexts, options : AnalyzeOptions]

\* the caller makes its next call; log keeps any one of the calls made so far
call_again ==
  /\ op = "analyze"
  /\ ret.done
  /\ args' \in RepeatInputs
  /\ ret' = NotReturned
  /\ \/ log' = log
     \/ log' = [seen |-> TRUE, args |-> args, value |-> ret.value]
  /\ UNCHANGED <<self, op>>

InitRepeat == Called("analyze", RepeatInputs)

NextRepeat ==
  \/ analyze /\ UNCHANGED log
  \/ call_again

SpecRepeat == InitRepeat /\ [][NextRepeat]_vars

(***************************************************************************)
(* Properties of _deduplicate_time_expressions, checked under SpecDedup.   *)
(***************************************************************************)
Deduplicated == op = "_deduplicate_time_expressions" /\ ret.done

SameSpan(a, b) == a.start = b.start /\ a.end = b.end

\* C1: for every list of raw matches the result holds exactly one expression
\* per (start, end) span of the input and nothing else: the one kept is a match
\* of the input whose priority is the smallest among the matches of that span,
\* and spans that differ, overlapping or not, all stay.
C1_OnePerSpanSmallestPriority ==
  Deduplicated =>
    LET input  == args.time_expressions
        output == ret.value
    IN  /\ \A e \in Range(input) :
             Cardinality({k \in 1..Len(output) : SameSpan(output[k], e)}) = 1
        /\ \A u \in Range(output) :
             /\ u \in Range(input)
             /\ \A e \in Range(input) : SameSpan(e, u) => u.priority <= e.priority
        /\ Len(output) = Cardinality({<<e.start, e.end>> : e \in Range(input)})

\* C1's case: two matches of one span, the one of the larger priority value
\* first in the list, and a match of another span that overlaps them; the
\* result keeps the smaller priority value and the overlapping match
C1_Witness ==
  /\ Deduplicated
  /\ Len(args.time_expressions) = 3
  /\ LET input == args.time_expressions
     IN  /\ SameSpan(input[1], input[2])
         /\ input[1].priority > input[2].priority
         /\ ~SameSpan(input[3], input[1])
         /\ input[3].start < input[1].end /\ input[1].start < input[3].end
         /\ Len(ret.value) = 2
         /\ input[2] \in Range(ret.value)
         /\ input[3] \in Range(ret.value)
         /\ input[1] \notin Range(ret.value)

(***************************************************************************)
(* Properties of analyze, checked under Spec (C7 under SpecConfidence).     *)
(***************************************************************************)
Analyzed == op = "analyze" /\ ret.done

Envelope == {"time_expressions", "events", "timeline", "summary"}

Tang  == <<"U5510", "U671D">>     \* 唐朝
Ming  == <<"U660E", "U671D">>     \* 明朝
Qing  == <<"U6E05", "U671D">>     \* 清朝

\* group_by = 'dynasty' is given, at the top level of the options or in
\* timeline_building
AsksDynasty(options) ==
  \/ "group_by" \in options.keys /\ options.group_by = "dynasty"
  \/ /\ "timeline_building" \in options.keys
     /\ "group_by" \in options.timeline_building.keys
     /\ options.timeline_building.group_by = "dynasty"

\* C2 (as claimed): for a text that holds "唐朝" and in which nothing else is
\* recognised, the result has a time expression of type dynasty with
\* start_year = 618 and end_year = 907.
C2_TangResolved ==
  (/\ Analyzed
   /\ IsSubstring(Tang, args.text)
   /\ \A e \in Range(ret.value.time_expressions) : e.text = Tang)
  => \E e \in Range(ret.value.time_expressions) :
        /\ e.type = "dynasty"
        /\ {"start_year", "end_year"} \subseteq e.keys
        /\ e.start_year = 618
        /\ e.end_year = 907

\* C3: when a sentence carries a year expression and a month_day expression,
\* both are extracted with their parsed fields (year; month and day) and the
\* event of that sentence has normalized_year equal to the year of a year
\* expression of the sentence.
C3_YearIsNormalizedYear ==
  Analyzed =>
    LET exprs == ret.value.time_expressions
        sentences == _split_sentences(args.text)
    IN  /\ \A e \in Range(exprs) :
             /\ e.type = "year" =>
                  "year" \in e.keys /\ e.year = int(SubSeq(e.text, 1, Len(e.text) - 1))
             /\ e.type = "month_day" => {"month", "day"} \subseteq e.keys
        /\ \A i \in 1..Len(sentences) :
             (\E y, m \in Range(exprs) :
                 /\ y.type = "year" /\ IsSubstring(y.text, sentences[i])
                 /\ m.type = "month_day" /\ IsSubstring(m.text, sentences[i]))
             => \E ev \in Range(ret.value.events) :
                   /\ ev.sentence_index = i - 1
                   /\ \E m \in Range(ev.time_expressions) : m.type = "month_day"
                   /\ "normalized_year" \in ev.keys
                   /\ \E y \in Range(ev.time_expressions) :
                         y.type = "year" /\ ev.normalized_year = y.year

\* C3's case: "1949年10月1日" in one sentence, year 1949, month 10, day 1, and
\* the event's normalized_year is 1949
C3_Witness ==
  /\ Analyzed
  /\ \E y, m \in Range(ret.value.time_expressions) :
        /\ y.type = "year" /\ y.year = 1949
        /\ m.type = "month_day" /\ m.month = 10 /\ m.day = 1
        /\ m.start = y.end
  /\ Len(ret.value.events) = 1
  /\ Len(ret.value.events[1].time_expressions) = 2
  /\ ret.value.events[1].normalized_year = 1949

\* C4 (as claimed): for two sentences, one mentioning "清朝" and the other
\* "明朝", analysed with group_by = dynasty, the timeline has exactly the two
\* nodes "明朝" and "清朝", in that order.
C4_TwoDynastyNodes ==
  (/\ Analyzed
   /\ AsksDynasty(args.options)
   /\ LET sentences == _split_sentences(args.text)
      IN  /\ Len(sentences) = 2
          /\ \E i, j \in 1..2 :
                /\ i # j
                /\ IsSubstring(Qing, sentences[i]) /\ ~IsSubstring(Ming, sentences[i])
                /\ IsSubstring(Ming, sentences[j]) /\ ~IsSubstring(Qing, sentences[j]))
  => LET nodes == ret.value.timeline.timeline
     IN  /\ Len(nodes) = 2
         /\ nodes[1].period = Ming
         /\ nodes[2].period = Qing

\* C5 (as claimed): for an empty or whitespace-only text analyze returns the
\* envelope: no time expression, no event, a timeline without period or event,
\* and a summary of three zeros.
C5_EmptyEnvelope ==
  (Analyzed /\ Len(strip(args.text)) = 0)
  => /\ ret.value.keys = Envelope
     /\ ret.value.time_expressions = << >>
     /\ ret.value.events = << >>
     /\ ret.value.timeline.total_events = 0
     /\ ret.value.timeline.total_periods = 0
     /\ ret.value.summary = [time_expressions_count |-> 0, events_count |-> 0,
                             timeline_periods |-> 0]

\* no pattern of the catalog matches anywhere in text
NoPatternMatches(text) ==
  \A k \in 1..Len(_init_time_patterns) :
     \A i \in 0..(Len(text) - 1) :
        ~MatchParts(_init_time_patterns[k].regex, 1, text, i).ok

\* C6: for a non-empty text in which no pattern matches, analyze returns the
\* envelope with no time expression, no event and no timeline node, and the
\* summary counts no event and no period.
C6_NoMarkerNoEvent ==
  (Analyzed /\ Len(args.text) > 0 /\ NoPatternMatches(args.text))
  => /\ ret.value.keys = Envelope
     /\ ret.value.time_expressions = << >>
     /\ ret.value.events = << >>
     /\ ret.value.timeline.timeline = << >>
     /\ ret.value.summary.events_count = 0
     /\ ret.value.summary.timeline_periods = 0

\* C6's case: a text with a sentence of words and no time marker
C6_Witness ==
  /\ Analyzed
  /\ NoPatternMatches(args.text)
  /\ Len(_split_sentences(args.text)) >= 2
  /\ \E k \in 1..Len(_init_event_keywords[2].keywords) :
        IsSubstring(_init_event_keywords[2].keywords[k], args.text)

\* C7 (SpecConfidence): for every sentence length, every number of time
\* expressions and every event type the confidence score lies within [0, 1]
\* (0..100 hundredths).
C7_ConfidenceInUnitInterval ==
  (op = "_calculate_event_confidence" /\ ret.done)
  => ret.value \in 0..100

\* C7's case: every bonus is earned, by more time expressions than the bonus
\* counts, and the score is 1
C7_Witness ==
  /\ op = "_calculate_event_confidence" /\ ret.done
  /\ Len(args.time_expressions) * 20 > 40
  /\ Len(args.sentence) \in 10..100
  /\ args.event_type # Other
  /\ ret.value = 100

\* the value events are sorted by: normalized_year if present, else the start
\* of the first time expression, else sentence_index
EffectiveValue(ev) ==
  IF "normalized_year" \in ev.keys THEN ev.normalized_year
  ELSE IF ev.time_expressions # << >> THEN ev.time_expressions[1].start
  ELSE ev.sentence_index

\* C8: consecutive events of the returned list are non-decreasing in their
\* effective sort value.
C8_EventsSorted ==
  Analyzed =>
    \A k \in 1..(Len(ret.value.events) - 1) :
       EffectiveValue(ret.value.events[k]) <= EffectiveValue(ret.value.events[k + 1])

\* C8's case: the sort moved an event of a later sentence before an earlier one
C8_Witness ==
  /\ Analyzed
  /\ \E k \in 1..(Len(ret.value.events) - 1) :
        /\ ret.value.events[k].sentence_index > ret.value.events[k + 1].sentence_index
        /\ EffectiveValue(ret.value.events[k]) < EffectiveValue(ret.value.events[k + 1])

(***************************************************************************)
(* Properties of build_timeline, checked under SpecTimeline.               *)
(***************************************************************************)
TimelineBuilt == op = "build_timeline" /\ ret.done

ByYear(options) == "group_by" \in options.keys /\ options.group_by = "year"

\* the indices of the events of normalized_year y
EventsOfYear(events, y) ==
  {k \in 1..Len(events) :
      "normalized_year" \in events[k].keys /\ events[k].normalized_year = y}

\* C9: with group_by = 'year', for every normalized_year y of the events given
\* to build_timeline exactly one node of the timeline holds events of year y,
\* it holds every event of year y, and its event_count is the number of the
\* events given that have normalized_year y.
C9_SameYearSameNode ==
  (TimelineBuilt /\ ByYear(args.options)) =>
    \A i \in 1..Len(args.events) :
       "normalized_year" \in args.events[i].keys =>
          LET y     == args.events[i].normalized_year
              nodes == ret.value.timeline
              of_y  == {n \in 1..Len(nodes) : EventsOfYear(nodes[n].events, y) # {}}
          IN  /\ Cardinality(of_y) = 1
              /\ \A n \in of_y :
                    /\ nodes[n].event_count = Cardinality(EventsOfYear(args.events, y))
                    /\ \A k \in EventsOfYear(args.events, y) :
                          args.events[k] \in Range(nodes[n].events)

\* C9's case: two events of two sentences with one normalized_year, in a node
\* of event_count 2
C9_Witness ==
  /\ TimelineBuilt
  /\ ByYear(args.options)
  /\ \E i, j \in 1..Len(args.events) :
        /\ args.events[i].sentence_index # args.events[j].sentence_index
        /\ "normalized_year" \in args.events[i].keys
        /\ "normalized_year" \in args.events[j].keys
        /\ args.events[i].normalized_year = args.events[j].normalized_year
        /\ \E n \in 1..Len(ret.value.timeline) :
              /\ ret.value.timeline[n].event_count = 2
              /\ args.events[i] \in Range(ret.value.timeline[n].events)
              /\ args.events[j] \in Range(ret.value.timeline[n].events)

GroupByValues == {"year", "century", "dynasty"}

InvalidGroupBy(options) ==
  "group_by" \in options.keys /\ options.group_by \notin GroupByValues

\* C11 (as claimed): build_timeline called with a group_by outside year,
\* century and dynasty is aborted: it returns no timeline.
C11_InvalidGroupByAborts ==
  (TimelineBuilt /\ InvalidGroupBy(args.options))
  => "timeline" \notin ret.value.keys

(***************************************************************************)
(* Properties of the options of analyze, checked under Spec.               *)
(***************************************************************************)
\* options.get(key, default) at the top level of the options of analyze
TopLevel(options, key, default) ==
  IF key \in options.keys THEN options[key] ELSE default

\* C12 (as claimed): min_confidence, max_events and group_by given directly in
\* the options of analyze take effect on the call: at most max_events events
\* (default 50), none of a confidence below min_confidence (default 0.3), and,
\* when group_by is given, the timeline of the events grouped by it.
C12_TopLevelOptionsApply ==
  (Analyzed /\ ret.value.keys = Envelope) =>
    LET options == args.options
        events  == ret.value.events
    IN  /\ Len(events) <= TopLevel(options, "max_events", 50)
        /\ \A k \in 1..Len(events) :
              events[k].confidence >= TopLevel(options, "min_confidence", 30)
        /\ "group_by" \in options.keys =>
              ret.value.timeline =
                build_timeline(events, [NoOptions EXCEPT !.keys = {"group_by"},
                                                         !.group_by = options.group_by])

\* C13 (as claimed): a match whose dynasty or period name is not a key of the
\* period table is discarded: every dynasty or historical_period expression
\* that extract_time_expressions returns names a key of the table.
C13_UnparsedDiscarded ==
  (Analyzed /\ ret.value.keys = Envelope) =>
    \A e \in Range(ret.value.time_expressions) :
       e.type \in {"dynasty", "historical_period"} => InPeriods(e.groups[1])

(***************************************************************************)
(* extract_events with a tokenizer that may fail (SpecTokenizer).  The     *)
(* tokenizer is outside the repository: on which sentences jieba.lcut      *)
(* raises is the environment's choice, drawn with the arguments.           *)
(***************************************************************************)
\* the indices (from 0) of the sentences on which the tokenizer is called:
\* those that hold a time expression
TokenizerCalledOn(text) ==
  LET sentences == _split_sentences(text)
      time_expressions == extract_time_expressions(text, NoOptions)
  IN  {i \in 0..(Len(sentences) - 1) :
         \E k \in 1..Len(time_expressions) :
            _is_time_in_sentence(time_expressions[k], sentences[i + 1], text)}

\* extract_events(text), jieba.lcut raising on the sentences of tokenizer_fails:
\* nothing between jieba.lcut and the caller of extract_events catches
extract_events_tokenizer(text, tokenizer_fails) ==
  IF Len(text) > 0 /\ TokenizerCalledOn(text) \cap tokenizer_fails # {}
  THEN [done |-> TRUE, raised |-> TRUE, value |-> << >>]
  ELSE [done |-> TRUE, raised |-> FALSE, value |-> extract_events(text, None, NoOptions)]

_extract_events_tokenizer ==
  /\ op = "extract_events"
  /\ ~ret.done
  /\ ret' = extract_events_tokenizer(args.text, args.tokenizer_fails)
  /\ UNCHANGED <<self, op, args, log>>

\* the texts of at most MaxFailing fragments and those of SpecRepeat; any set of the
\* first MaxFailing sentences fails
InitTokenizer ==
  Called("extract_events",
         [text : RepeatTexts \cup TextsOf(MaxFailing),
          tokenizer_fails : SUBSET (0..(MaxFailing - 1))])

SpecTokenizer == InitTokenizer /\ [][_extract_events_tokenizer]_vars

\* C14 (as claimed): when the tokenizer fails on sentences of the text,
\* extract_events returns normally, with the events of exactly the other
\* sentences that hold a time expression.
C14_OnlyFailingSentenceSkipped ==
  (/\ op = "extract_events"
   /\ ret.done
   /\ TokenizerCalledOn(args.text) \cap args.tokenizer_fails # {})
  => /\ ~ret.raised
     /\ {ret.value[k].sentence_index : k \in 1..Len(ret.value)}
          = TokenizerCalledOn(args.text) \ args.tokenizer_fails

(***************************************************************************)
(* Concurrent calls of analyze on the one instance the service shares      *)
(* (SpecConcurrent).  op is "analyze"; args and ret are per thread; a      *)
(* thread's ret holds the locals of its call and where the call stands;    *)
(* a step is one stage of analyze, which reads self when it runs.          *)
(* log.seen records that a step ran while another call was under way.      *)
(***************************************************************************)
Threads == 1..MaxThreads

\* the empty text and the two texts of several sentences, without options and
\* with the options of timeline_building
ConcurrentInputs ==
  [text : RepeatTexts \ TextsOf(1),
   options : {o \in AnalyzeOptions : "group_by" \notin o.keys}]

\* a call that has not run its first stage
Entered ==
  [pc |-> "time_expressions", done |-> FALSE, time_expressions |-> << >>,
   events |-> << >>, timeline |-> NoTimeline, value |-> << >>]

\* another call than t's is between its first stage and its return
UnderWay(t) ==
  \E u \in Threads \ {t} : ret[u].pc \in {"events", "timeline", "result"}

Interleaved(t) == [log EXCEPT !.seen = @ \/ UnderWay(t)]

\* the first stage, with the catalog sorted in place (list.sort) and not copied
analyze_time_expressions_sorting_in_place(t) ==
  /\ ret[t].pc = "time_expressions"
  /\ ret' = [ret EXCEPT ![t] =
               IF Len(args[t].text) = 0
               THEN [@ EXCEPT !.pc = "returned", !.done = TRUE, !.value = NoResult]
               ELSE [@ EXCEPT !.pc = "events",
                              !.time_expressions =
                                 extract_time_expressions(
                                   args[t].text, Nested(args[t].options, "time_extraction"))]]
  /\ self' = [self EXCEPT !.time_patterns =
                sorted(self.time_patterns,
                       [k \in 1..Len(self.time_patterns) |-> <<self.time_patterns[k].priority>>])]
  /\ log' = Interleaved(t)
  /\ UNCHANGED <<op, args>>

\* analyze: return {} for no text, else extract_time_expressions
analyze_time_expressions(t) ==
  /\ ret[t].pc = "time_expressions"
  /\ ret' = [ret EXCEPT ![t] =
               IF Len(args[t].text) = 0
               THEN [@ EXCEPT !.pc = "returned", !.done = TRUE, !.value = NoResult]
               ELSE [@ EXCEPT !.pc = "events",
                              !.time_expressions =
                                 extract_time_expressions(
                                   args[t].text, Nested(args[t].options, "time_extraction"))]]
  /\ log' = Interleaved(t)
  /\ UNCHANGED <<self, op, args>>

\* analyze: extract_events
analyze_events(t) ==
  /\ ret[t].pc = "events"
  /\ ret' = [ret EXCEPT ![t] =
               [@ EXCEPT !.pc = "timeline",
                         !.events =
                            extract_events(
                              args[t].text,
                              [is_none |-> FALSE, value |-> ret[t].time_expressions],
                              Nested(args[t].options, "event_extraction"))]]
  /\ log' = Interleaved(t)
  /\ UNCHANGED <<self, op, args>>

\* analyze: build_timeline
analyze_timeline(t) ==
  /\ ret[t].pc = "timeline"
  /\ ret' = [ret EXCEPT ![t] =
               [@ EXCEPT !.pc = "result",
                         !.timeline =
                            build_timeline(ret[t].events,
                                           Nested(args[t].options, "timeline_building"))]]
  /\ log' = Interleaved(t)
  /\ UNCHANGED <<self, op, args>>

\* analyze: the result dict and the return
analyze_result(t) ==
  /\ ret[t].pc = "result"
  /\ ret' = [ret EXCEPT ![t] =
               [@ EXCEPT !.pc = "returned", !.done = TRUE,
                         !.value =
                            [keys |-> {"time_expressions", "events", "timeline", "summary"},
                             time_expressions |-> ret[t].time_expressions,
                             events |-> ret[t].events,
                             timeline |-> ret[t].timeline,
                             summary |-> summary(ret[t].time_expressions, ret[t].events,
                                                 ret[t].timeline)]]]
  /\ log' = Interleaved(t)
  /\ UNCHANGED <<self, op, args>>

InitConcurrent ==
  /\ self = TimelineExtractor
  /\ op = "analyze"
  /\ args \in [Threads -> ConcurrentInputs]
  /\ ret = [t \in Threads |-> Entered]
  /\ log = NoLog

NextConcurrent ==
  \E t \in Threads :
     \/ analyze_time_expressions(t)
     \/ analyze_events(t)
     \/ analyze_timeline(t)
     \/ analyze_result(t)

SpecConcurrent == InitConcurrent /\ [][NextConcurrent]_vars

\* C15 (SpecConcurrent): whatever the interleaving of the stages of the calls
\* made on the shared instance, the pattern catalog, the period table and the
\* event keyword index stay as construction left them, and every call that has
\* returned returned what analyze returns for its text and options alone.
C15_CatalogFixedCallsIndependent ==
  /\ self = TimelineExtractor
  /\ \A t \in Threads :
        ret[t].done => ret[t].value = analyze_return(args[t].text, args[t].options)

\* C15's case: two calls with different arguments have both returned, with
\* events, and a stage of one ran while the other was under way
C15_Witness ==
  /\ \A t \in Threads : ret[t].done /\ Len(ret[t].value.events) >= 1
  /\ \E t, u \in Threads : args[t] # args[u]
  /\ log.seen

(***************************************************************************)
(* Properties of the time normalization, checked under Spec.               *)
(***************************************************************************)
\* C16 (as claimed): the representative expression of an event is the one of
\* the highest rank under year=4 > month_day=3 > dynasty=2 = century=2 >
\* period=1 > relative_period=0; in particular the event of a sentence that
\* holds a month_day and a century expression and no year has the month_day
\* expression as its representative.
C16_MonthDayBeforeCentury ==
  (Analyzed /\ ret.value.keys = Envelope) =>
    \A ev \in Range(ret.value.events) :
       (/\ \E e \in Range(ev.time_expressions) : e.type = "month_day"
        /\ \E e \in Range(ev.time_expressions) : e.type = "century"
        /\ \A e \in Range(ev.time_expressions) : e.type # "year")
       => "primary_time" \in ev.keys /\ ev.primary_time.type = "month_day"

(***************************************************************************)
(* _classify_event_type on lists of tokens (SpecClassify).                 *)
(***************************************************************************)
\* the tokens: keywords of one category (战争, 建立, 贸易), keywords of two
\* (政变, 改革, 发展) and a word that is no keyword (的)
Tokens ==
  {<<"U6218", "U4E89">>, <<"U5EFA", "U7ACB">>, <<"U8D38", "U6613">>,
   <<"U653F", "U53D8">>, <<"U6539", "U9769">>, <<"U53D1", "U5C55">>,
   <<"U7684">>}

TokenLists == UNION {[1..n -> Tokens] : n \in 0..MaxWords}

_classify ==
  /\ op = "_classify_event_type"
  /\ ~ret.done
  /\ ret' = [done |-> TRUE, value |-> _classify_event_type(args.words)]
  /\ UNCHANGED <<self, op, args, log>>

InitClassify == Called("_classify_event_type", [words : TokenLists])

SpecClassify == InitClassify /\ [][_classify]_vars

Classified == op = "_classify_event_type" /\ ret.done

\* the number of distinct tokens of words that are keywords of the k-th category
Intersection(words, k) ==
  Cardinality({w \in Range(words) :
                 \E i \in 1..Len(_init_event_keywords[k].keywords) :
                    _init_event_keywords[k].keywords[i] = w})

\* C17 (SpecClassify): _classify_event_type returns the category whose keyword
\* set has the largest intersection with the set of the tokens, the one
\* declared first among those of the largest; and 其他 when every intersection
\* is empty.
C17_LargestIntersectionFirstDeclared ==
  Classified =>
    LET categories == 1..Len(_init_event_keywords)
        size(k) == Intersection(args.words, k)
    IN  IF \A k \in categories : size(k) = 0
        THEN ret.value = Other
        ELSE \E k \in categories :
                /\ ret.value = _init_event_keywords[k].event_type
                /\ size(k) > 0
                /\ \A j \in categories : size(j) <= size(k)
                /\ \A j \in categories : j < k => size(j) < size(k)

\* C17's case: two categories share the largest intersection, a token occurs
\* more than once in the list, and the category declared first is returned
C17_Witness ==
  /\ Classified
  /\ \E k, j \in 1..Len(_init_event_keywords) :
        /\ k < j
        /\ Intersection(args.words, k) = Intersection(args.words, j)
        /\ Intersection(args.words, k) >= 1
        /\ \A i \in 1..Len(_init_event_keywords) :
              Intersection(args.words, i) <= Intersection(args.words, k)
        /\ ret.value = _init_event_keywords[k].event_type
  /\ Cardinality(Range(args.words)) < Len(args.words)

(***************************************************************************)
(* Properties of the grouping of events without a year, checked under Spec.*)
(***************************************************************************)
DynastyTyped(ev) == {e \in Range(ev.time_expressions) : e.type = "dynasty"}

NodesHolding(ev, timeline) ==
  IF "timeline" \in timeline.keys
  THEN {n \in 1..Len(timeline.timeline) : ev \in Range(timeline.timeline[n].events)}
  ELSE {}

\* C18 (as claimed): an event without normalized_year that has a dynasty-typed
\* expression is in a node whose period is the dynasty that expression names;
\* an event with neither is in no node, and is still in events and counted in
\* the timeline's total_events.
C18_FallbackToDynasty ==
  (Analyzed /\ ret.value.keys = Envelope) =>
    \A ev \in Range(ret.value.events) :
       "normalized_year" \notin ev.keys =>
          LET timeline == ret.value.timeline IN
          IF DynastyTyped(ev) # {}
          THEN \E n \in NodesHolding(ev, timeline) :
                  \E e \in DynastyTyped(ev) :
                     timeline.timeline[n].period \in {e.text, e.groups[1]}
          ELSE /\ NodesHolding(ev, timeline) = {}
               /\ timeline.total_events = Len(ret.value.events)

(***************************************************************************)
(* _get_timeline_group_key on events of every year (SpecGroupKey).         *)
(***************************************************************************)
\* an event of every normalized_year from -MaxYear to MaxYear, and an event
\* without one; the function reads nothing else of an event but its time
\* expressions
GroupKeyEvents ==
  {[keys |-> {"normalized_year"}, normalized_year |-> y, time_expressions |-> << >>] :
     y \in (-MaxYear)..MaxYear}
  \cup {[keys |-> {}, normalized_year |-> 0, time_expressions |-> << >>]}

_group_key ==
  /\ op = "_get_timeline_group_key"
  /\ ~ret.done
  /\ ret' = [done |-> TRUE, value |-> _get_timeline_group_key(args.event, args.options)]
  /\ UNCHANGED <<self, op, args, log>>

InitGroupKey ==
  Called("_get_timeline_group_key", [event : GroupKeyEvents, options : TimelineOptions])

SpecGroupKey == InitGroupKey /\ [][_group_key]_vars

\* the call has returned the key of an event that has a normalized_year,
\* grouped by group_by (century when no group_by is given)
KeyedBy(group_by) ==
  /\ op = "_get_timeline_group_key"
  /\ ret.done
  /\ "normalized_year" \in args.event.keys
  /\ IF "group_by" \in args.options.keys
     THEN args.options.group_by = group_by
     ELSE group_by = "century"

Century == <<"U4E16", "U7EAA">>              \* 世纪
BC == <<"U516C", "U5143", "U524D">>          \* 公元前

\* ceil(y / 100) for y > 0
CeilHundred(y) == (y + 99) \div 100

\* C19 (as claimed): grouped by century, a year y > 0 has the key of century
\* ceil(y / 100), and the year -y has the BC-marked key of the same century
\* number.
C19_CenturySymmetric ==
  KeyedBy("century") =>
    LET year == args.event.normalized_year
    IN  /\ year > 0 => ret.value = str(CeilHundred(year)) \o Century
        /\ year < 0 => ret.value = BC \o str(CeilHundred(-year)) \o Century

UnknownPeriod == <<"U672A", "U77E5", "U65F6", "U671F">>     \* 未知时期

\* the entries of the period table whose [start, end] holds the year
Holding(year) ==
  {k \in 1..Len(_init_dynasty_periods) :
      /\ _init_dynasty_periods[k].start <= year
      /\ year <= _init_dynasty_periods[k].end}

\* C20 (SpecGroupKey): grouped by dynasty, an event of normalized_year y has
\* the name of an entry of the period table whose [start, end] holds y as its
\* key, and the key 未知时期 exactly when no entry holds y.
C20_DynastyOfYear ==
  KeyedBy("dynasty") =>
    LET year == args.event.normalized_year
    IN  /\ Holding(year) # {} =>
              \E k \in Holding(year) : ret.value = _init_dynasty_periods[k].name
        /\ ret.value = UnknownPeriod <=> Holding(year) = {}

\* C20's case: a year that is the end of one entry and the start of the next
\* is keyed by one of the two, and not as unknown
C20_Witness ==
  /\ KeyedBy("dynasty")
  /\ \E k, j \in Holding(args.event.normalized_year) :
        /\ k # j
        /\ _init_dynasty_periods[k].end = args.event.normalized_year
        /\ _init_dynasty_periods[j].start = args.event.normalized_year
        /\ ret.value = _init_dynasty_periods[k].name

(***************************************************************************)
(* extract_events on one sentence after the other, the caller collecting   *)
(* the events returned, then build_timeline on the events collected        *)
(* (SpecBuild).                                                            *)
(***************************************************************************)
MaxEvents == 3        \* the caller collects at most MaxEvents events
MaxPerNode == 2       \* max_events_per_node, when given, is within 1..MaxPerNode

DatedSentences ==
  {\* 1949年，中华人民共和国成立
   <<"1", "9", "4", "9", "U5E74", "UFF0C", "U4E2D", "U534E", "U4EBA", "U6C11",
     "U5171", "U548C", "U56FD", "U6210", "U7ACB">>,
   \* 20世纪中国战争
   <<"2", "0", "U4E16", "U7EAA", "U4E2D", "U56FD", "U6218", "U4E89">>,
   \* 春秋战争
   <<"U6625", "U79CB", "U6218", "U4E89">>,
   \* 唐朝李白
   <<"U5510", "U671D", "U674E", "U767D">>,
   \* 10月1日中国
   <<"1", "0", "U6708", "1", "U65E5", "U4E2D", "U56FD">>,
   \* 1949年中华人民共和国中国李白世纪战争杜甫长安北京洛阳皇帝科举
   <<"1", "9", "4", "9", "U5E74", "U4E2D", "U534E", "U4EBA", "U6C11", "U5171",
     "U548C", "U56FD", "U4E2D", "U56FD", "U674E", "U767D", "U4E16", "U7EAA",
     "U6218", "U4E89", "U675C", "U752B", "U957F", "U5B89", "U5317", "U4EAC",
     "U6D1B", "U9633", "U7687", "U5E1D", "U79D1", "U4E3E">>}

ExtractInputs == [text : DatedSentences, time_expressions : {None}, options : {NoOptions}]

\* the options of build_timeline: group_by as in TimelineOptions, with or
\* without max_events_per_node
BuildOptions ==
  TimelineOptions
  \cup {[o EXCEPT !.keys = @ \cup {"max_events_per_node"}, !.max_events_per_node = n] :
          o \in TimelineOptions, n \in 1..MaxPerNode}

\* the events the caller holds: those of the earlier calls (log.value) and
\* those of the call that has just returned
Collected == log.value \o ret.value

\* the caller keeps the events returned and calls extract_events on another
\* sentence
collect_events ==
  /\ op = "extract_events"
  /\ ret.done
  /\ Len(Collected) < MaxEvents
  /\ log' = [log EXCEPT !.seen = TRUE, !.value = Collected]
  /\ args' \in ExtractInputs
  /\ ret' = NotReturned
  /\ UNCHANGED <<self, op>>

\* build_timeline(events, options), called with the events collected
_build(options) ==
  /\ op = "extract_events"
  /\ ret.done
  /\ op' = "build_timeline"
  /\ args' = [events |-> Collected, options |-> options]
  /\ ret' = [done |-> TRUE, value |-> build_timeline(Collected, options)]
  /\ UNCHANGED <<self, log>>

InitBuild == Called("extract_events", ExtractInputs)

NextBuild ==
  \/ _extract_events
  \/ collect_events
  \/ \E options \in BuildOptions : _build(options)

SpecBuild == InitBuild /\ [][NextBuild]_vars

(***************************************************************************)
(* Properties of build_timeline on collected events, checked under         *)
(* SpecBuild.                                                              *)
(***************************************************************************)
\* the indices of the events given to build_timeline whose group key is key
GroupOf(key) ==
  {k \in 1..Len(args.events) :
      _get_timeline_group_key(args.events[k], args.options) = key}

\* the normalized years of the events of the group of key
YearsOf(key) ==
  {args.events[k].normalized_year :
     k \in {j \in GroupOf(key) : "normalized_year" \in args.events[j].keys}}

\* C21: in the timeline build_timeline returns, the sort_key of every node is
\* the least normalized_year of the events grouped into the node, 0 when none
\* of them has a normalized_year, and the nodes are listed in non-decreasing
\* order of sort_key.
C21_SortKeyLeastYearAscending ==
  TimelineBuilt =>
    LET nodes == ret.value.timeline
    IN  /\ \A n \in 1..Len(nodes) :
              LET years == YearsOf(nodes[n].period)
              IN  IF years = {} THEN nodes[n].sort_key = 0
                  ELSE /\ nodes[n].sort_key \in years
                       /\ \A y \in years : nodes[n].sort_key <= y
        /\ \A n \in 1..(Len(nodes) - 1) : nodes[n].sort_key <= nodes[n + 1].sort_key

\* C21's case: a node of two events whose first event is not the one of the
\* least year, listed after a node whose events were given later
C21_Witness ==
  /\ TimelineBuilt
  /\ \E n \in 2..Len(ret.value.timeline) :
        LET node == ret.value.timeline[n]
            before == ret.value.timeline[n - 1]
        IN  /\ node.event_count = 2
            /\ node.sort_key < node.events[1].normalized_year
            /\ before.sort_key < node.sort_key
            /\ \A k \in GroupOf(before.period) : \A j \in GroupOf(node.period) : j < k

\* C22 (as claimed): the time_range of a node spans the year ranges of its
\* events: for every event of the node that has a year_range (start_year,
\* end_year), time_range.start is at most start_year and time_range.end is at
\* least end_year.
C22_TimeRangeCoversYearRanges ==
  TimelineBuilt =>
    \A n \in 1..Len(ret.value.timeline) :
       LET node == ret.value.timeline[n]
       IN  \A k \in GroupOf(node.period) :
              "year_range" \in args.events[k].keys =>
                 /\ ~node.time_range.is_none
                 /\ node.time_range.start <= args.events[k].year_range[1]
                 /\ node.time_range.end >= args.events[k].year_range[2]

\* the mentions of an entity text in the events of the group of key: the
\* pairs of the index of an event and the index of an entity of it
MentionsOf(key, name) ==
  UNION {{<<k, i>> : i \in {e \in 1..Len(args.events[k].entities) :
                               args.events[k].entities[e].text = name}} :
           k \in GroupOf(key)}

\* the first of the mentions, events in the order given and entities in order
FirstMention(key, name) ==
  CHOOSE m \in MentionsOf(key, name) :
    \A o \in MentionsOf(key, name) : m = o \/ TupleLess(m, o)

\* the entity texts mentioned in the events of the group of key
MentionedIn(key) ==
  UNION {{args.events[k].entities[i].text : i \in 1..Len(args.events[k].entities)} :
           k \in GroupOf(key)}

\* C23: the top_entities of every node has at most 10 entries; the count of
\* an entry is the number of mentions of its entity text in all the events of
\* the node; counts do not increase along the list, and of two entries of one
\* count the one mentioned first comes first.
C23_TopEntitiesRanked ==
  TimelineBuilt =>
    \A n \in 1..Len(ret.value.timeline) :
       LET key == ret.value.timeline[n].period
           top == ret.value.timeline[n].top_entities
       IN  /\ Len(top) <= 10
           /\ \A i \in 1..Len(top) :
                 top[i].count = Cardinality(MentionsOf(key, top[i].name))
           /\ \A i, j \in 1..Len(top) :
                 i < j =>
                   /\ top[i].count >= top[j].count
                   /\ top[i].count = top[j].count =>
                        TupleLess(FirstMention(key, top[i].name),
                                  FirstMention(key, top[j].name))

\* C23's case: a node whose events mention more than 10 entity texts, with 10
\* entries, one of them of a higher count listed before an entry mentioned
\* earlier, and two entries of one count
C23_Witness ==
  /\ TimelineBuilt
  /\ \E n \in 1..Len(ret.value.timeline) :
        LET key == ret.value.timeline[n].period
            top == ret.value.timeline[n].top_entities
        IN  /\ Cardinality(MentionedIn(key)) > 10
            /\ Len(top) = 10
            /\ \E i, j \in 1..Len(top) :
                  /\ i < j
                  /\ top[i].count > top[j].count
                  /\ TupleLess(FirstMention(key, top[j].name),
                               FirstMention(key, top[i].name))
            /\ \E i, j \in 1..Len(top) : i < j /\ top[i].count = top[j].count

(***************************************************************************)
(* extract_events on texts of dated sentences, with min_confidence and     *)
(* max_events (SpecExtract).                                               *)
(***************************************************************************)
\* four of the dated sentences: a year, a century, a resolved period and an
\* unresolved dynasty
ShortSentences ==
  {\* 1949年，中华人民共和国成立
   <<"1", "9", "4", "9", "U5E74", "UFF0C", "U4E2D", "U534E", "U4EBA", "U6C11",
     "U5171", "U548C", "U56FD", "U6210", "U7ACB">>,
   \* 20世纪中国战争
   <<"2", "0", "U4E16", "U7EAA", "U4E2D", "U56FD", "U6218", "U4E89">>,
   \* 春秋战争
   <<"U6625", "U79CB", "U6218", "U4E89">>,
   \* 唐朝李白
   <<"U5510", "U671D", "U674E", "U767D">>}

\* the texts of n of the short sentences, each closed by 。
RECURSIVE SentencesOf(_)
SentencesOf(n) ==
  IF n = 0 THEN {<< >>}
  ELSE {t \o s \o <<"U3002">> : t \in SentencesOf(n - 1), s \in ShortSentences}

SentenceTexts == UNION {SentencesOf(n) : n \in 0..MaxEvents}

\* the values of min_confidence, in hundredths
Confidences == {60}

\* the options of extract_events: min_confidence and max_events, given or not
ExtractOptions ==
  LET WithMin(o) ==
        {o} \cup {[o EXCEPT !.keys = @ \cup {"min_confidence"}, !.min_confidence = m] :
                    m \in Confidences}
      WithMax(o) ==
        {o} \cup {[o EXCEPT !.keys = @ \cup {"max_events"}, !.max_events = k] :
                    k \in 0..(MaxEvents - 1)}
  IN  UNION {WithMax(o) : o \in WithMin(NoOptions)}

InitExtract ==
  Called("extract_events",
         [text : SentenceTexts, time_expressions : {None}, options : ExtractOptions])

SpecExtract == InitExtract /\ [][_extract_events]_vars

EventsExtracted == op = "extract_events" /\ ret.done

\* the events of the sentences of the text before the post-filter
Unfiltered ==
  EventsFrom(_split_sentences(args.text), 1,
             extract_time_expressions(args.text, args.options), args.text)

\* min_confidence and max_events of the call, with their defaults
MinConfidence ==
  IF "min_confidence" \in args.options.keys THEN args.options.min_confidence ELSE 30

MaxEventsAsked ==
  IF "max_events" \in args.options.keys THEN args.options.max_events ELSE 50

\* the events before the post-filter whose confidence is not below min_confidence
Passing == SelectSeq(Unfiltered, LAMBDA e : e.confidence >= MinConfidence)

\* C24: extract_events returns no event of confidence below min_confidence and
\* at most max_events events; the events returned are in sort order and are
\* the first of the events that pass the filter: as many as pass, or
\* max_events of them when more pass, every event left out sorting no earlier
\* than every event returned.
C24_FilteredSortedTruncated ==
  EventsExtracted =>
    LET passing == Passing
        events  == ret.value
        value   == [k \in 1..Len(passing) |-> EffectiveValue(passing[k])]
    IN  /\ \A k \in 1..Len(events) : events[k].confidence >= MinConfidence
        /\ Len(events) = Min(Len(passing), MaxEventsAsked)
        /\ \A k \in 1..(Len(events) - 1) :
              EffectiveValue(events[k]) <= EffectiveValue(events[k + 1])
        /\ \E kept \in SUBSET (1..Len(passing)) :
              /\ Cardinality(kept) = Len(events)
              /\ \A e \in Range(events) :
                    Cardinality({k \in 1..Len(events) : events[k] = e})
                      = Cardinality({k \in kept : passing[k] = e})
              /\ \A k \in kept : \A j \in (1..Len(passing)) \ kept :
                    value[k] <= value[j]

\* C24's case: an event below min_confidence is dropped, more events than
\* max_events pass, and the one returned is not the first of the text
C24_Witness ==
  /\ EventsExtracted
  /\ "min_confidence" \in args.options.keys
  /\ "max_events" \in args.options.keys
  /\ Len(ret.value) = MaxEventsAsked
  /\ Len(ret.value) > 0
  /\ LET passing == Passing
     IN  /\ Len(passing) < Len(Unfiltered)
         /\ Len(passing) > MaxEventsAsked
         /\ ret.value[1] # passing[1]

\* C25 (SpecTimeline, where extract_events is called with no option, so that
\* the post-filter drops nothing): for every sentence of the text there is an
\* event of that sentence exactly when the text of some time expression is a
\* substring of the sentence; there is at most one, and its time_expressions
\* are all the expressions whose text is a substring of the sentence, in
\* their order.
C25_EventIffExpressionInSentence ==
  EventsExtracted =>
    LET sentences == _split_sentences(args.text)
        exprs == extract_time_expressions(args.text, args.options)
    IN  /\ \A k \in 1..Len(ret.value) :
              ret.value[k].sentence_index \in 0..(Len(sentences) - 1)
        /\ \A i \in 1..Len(sentences) :
              LET inside == SelectSeq(exprs, LAMBDA x : IsSubstring(x.text, sentences[i]))
                  of_i == {k \in 1..Len(ret.value) : ret.value[k].sentence_index = i - 1}
              IN  /\ of_i # {} <=> inside # << >>
                  /\ Cardinality(of_i) <= 1
                  /\ \A k \in of_i :
                        /\ ret.value[k].sentence = sentences[i]
                        /\ ret.value[k].time_expressions = inside

\* C25's case: the event of the first sentence holds, beside the expression
\* matched in the sentence, an expression of the same text matched after the
\* end of the sentence, and the event of the other sentence holds both too
C25_Witness ==
  /\ EventsExtracted
  /\ Len(ret.value) = 2
  /\ ret.value[1].time_expressions = ret.value[2].time_expressions
  /\ \E k \in 1..2 :
        /\ ret.value[k].sentence_index = 0
        /\ args.text[1] = ret.value[k].sentence[1]
        /\ \E x, y \in Range(ret.value[k].time_expressions) :
              /\ x.end <= Len(ret.value[k].sentence)
              /\ y.start > Len(ret.value[k].sentence)

(***************************************************************************)
(* extract_time_expressions on a text (SpecTimes).                         *)
(***************************************************************************)
_extract_time_expressions ==
  /\ op = "extract_time_expressions"
  /\ ~ret.done
  /\ ret' = [done |-> TRUE, value |-> extract_time_expressions(args.text, args.options)]
  /\ UNCHANGED <<self, op, args, log>>

InitTimes == Called("extract_time_expressions", [text : Texts, options : {NoOptions}])

SpecTimes == InitTimes /\ [][_extract_time_expressions]_vars

TimesExtracted == op = "extract_time_expressions" /\ ret.done

\* C26: the list extract_time_expressions returns is in non-decreasing order
\* of start, and every expression of it has start < end.
C26_SortedByStartNonEmptySpans ==
  TimesExtracted =>
    /\ \A k \in 1..(Len(ret.value) - 1) : ret.value[k].start <= ret.value[k + 1].start
    /\ \A k \in 1..Len(ret.value) : ret.value[k].start < ret.value[k].end

\* C26's case: an expression found by a pattern evaluated later stands earlier
\* in the text, and in the list, than one found by a pattern evaluated before
C26_Witness ==
  /\ TimesExtracted
  /\ \E k, j \in 1..Len(ret.value) :
        /\ k < j
        /\ ret.value[k].start < ret.value[j].start
        /\ ret.value[k].priority > ret.value[j].priority

\* the values of precision the interface names
Precisions ==
  {"year", "day", "dynasty", "century", "period", "relative_period", "unknown"}

\* C27 (as claimed): every expression extract_time_expressions returns has a
\* precision field, and its value is one of Precisions.
C27_PrecisionOnEveryExpression ==
  TimesExtracted =>
    \A k \in 1..Len(ret.value) :
       /\ "precision" \in ret.value[k].keys
       /\ ret.value[k].precision \in Precisions

\* C28 (SpecGroupKey): grouped by dynasty, an event whose normalized_year is
\* held by one entry of the period table or more is keyed by the first of
\* them in table order; the start year of an entry that is the end year of
\* the entry before it is therefore keyed by the entry before.
C28_FirstDeclaredPeriod ==
  KeyedBy("dynasty") =>
    LET year == args.event.normalized_year
    IN  /\ \A k \in Holding(year) :
              (\A j \in Holding(year) : k <= j) =>
                 ret.value = _init_dynasty_periods[k].name
        /\ \A k \in 2..Len(_init_dynasty_periods) :
              (/\ _init_dynasty_periods[k].start = year
               /\ _init_dynasty_periods[k - 1].end = year)
                 => ret.value # _init_dynasty_periods[k].name

\* C28's case: the year 1644, held by 明朝 and by 清朝, is keyed 明朝
C28_Witness ==
  /\ KeyedBy("dynasty")
  /\ args.event.normalized_year = 1644
  /\ \E k, j \in Holding(1644) :
        /\ _init_dynasty_periods[k].name = Ming
        /\ _init_dynasty_periods[j].name = Qing
  /\ ret.value = Ming

\* the sum of event_count over the nodes
RECURSIVE SumOfCounts(_)
SumOfCounts(nodes) ==
  IF Len(nodes) = 0 THEN 0 ELSE Head(nodes).event_count + SumOfCounts(Tail(nodes))

\* max_events_per_node of the call, with its default
PerNode ==
  IF "max_events_per_node" \in args.options.keys
  THEN args.options.max_events_per_node ELSE 10

\* C29: in the timeline build_timeline returns, the event_count of a node is
\* the number of the events given that have the node's key, an event belongs
\* to at most one node, the sum of the event_counts is at most total_events
\* and is total_events exactly when every event has a group key; the events
\* list of a node is the first max_events_per_node (default 10) events of its
\* group, or all of them when they are fewer.
C29_CountsPartitionEvents ==
  TimelineBuilt =>
    LET nodes == ret.value.timeline
        keyed == {k \in 1..Len(args.events) :
                    _get_timeline_group_key(args.events[k], args.options) # << >>}
    IN  /\ ret.value.total_events = Len(args.events)
        /\ \A n \in 1..Len(nodes) :
              /\ nodes[n].event_count = Cardinality(GroupOf(nodes[n].period))
              /\ Len(nodes[n].events) = Min(nodes[n].event_count, PerNode)
              /\ \A i \in 1..Len(nodes[n].events) :
                    \E k \in GroupOf(nodes[n].period) :
                       /\ args.events[k] = nodes[n].events[i]
                       /\ Cardinality({j \in GroupOf(nodes[n].period) : j < k}) = i - 1
        /\ \A n, m \in 1..Len(nodes) :
              n # m => GroupOf(nodes[n].period) \cap GroupOf(nodes[m].period) = {}
        /\ SumOfCounts(nodes) <= ret.value.total_events
        /\ SumOfCounts(nodes) = ret.value.total_events
             <=> keyed = 1..Len(args.events)

\* C29's case: an event without a group key beside a node of two events whose
\* events list is cut to one
C29_Witness ==
  /\ TimelineBuilt
  /\ SumOfCounts(ret.value.timeline) < ret.value.total_events
  /\ \E n \in 1..Len(ret.value.timeline) :
        /\ ret.value.timeline[n].event_count = 2
        /\ Len(ret.value.timeline[n].events) = 1

\* C30 (SpecTimeline, where min_confidence has its default): every event
\* built from a sentence of the text has confidence 0.5 or more, and the
\* events returned are as many as the events built: the post-filter drops
\* none.
C30_AtLeastHalfNeverDropped ==
  EventsExtracted =>
    LET built == Unfiltered
    IN  /\ \A k \in 1..Len(built) : built[k].confidence >= 50
        /\ \A k \in 1..Len(ret.value) : ret.value[k].confidence >= 50
        /\ Len(ret.value) = Len(built)
        /\ \A k \in 1..Len(built) : built[k] \in Range(ret.value)

\* C30's case: an event of one time expression in a sentence of fewer than 10
\* characters and of no type is built with confidence 0.5, and is returned
C30_Witness ==
  /\ EventsExtracted
  /\ "min_confidence" \notin args.options.keys
  /\ \E k \in 1..Len(ret.value) :
        /\ ret.value[k].confidence = 50
        /\ Len(ret.value[k].time_expressions) = 1
        /\ Len(ret.value[k].sentence) < 10
        /\ ret.value[k].event_type = Other

=============================================================================
